---- MODULE Spec2Model ----
(***************************************************************************)
(* SLaNg symbolic math core (slang-math.js) and its calculation helpers.   *)
(*                                                                         *)
(* Objects live in a store: store.T is the heap of term objects, store.F   *)
(* the heap of fraction objects; an object's identity is its index.  A     *)
(* term object is {coeff, var}: coeff a rational number, var the ordered   *)
(* key/value list of the JS object (hasVar = FALSE when the key `var` is   *)
(* absent).  A fraction object is {numi: {terms: [...]}, deno}: terms is   *)
(* the array of term identities.  Every function of the library is an      *)
(* operator from a store to a store and a result, written statement by     *)
(* statement from the source, so that which object a statement writes to   *)
(* is part of the model.                                                   *)
(*                                                                         *)
(* Numbers are exact in Spec (polynomials in 1e-10 with rational           *)
(* coefficients) and IEEE 754 binary64 in FloatSpec.                       *)
(***************************************************************************)
EXTENDS Integers, Sequences, FiniteSets, TLC

VARIABLES store, input, call

vars == <<store, input, call>>

\* ------------------------------------------------------------------ bounds
MaxPow == 2
MaxLen == 2
MaxFracs == 3

\* ----------------------------------------------------------------- numbers
Abs(i) == IF i < 0 THEN -i ELSE i

RECURSIVE Gcd(_, _)
Gcd(a, b) == IF b = 0 THEN a ELSE Gcd(b, a % b)

Norm(n, d) ==
    LET g == Gcd(Abs(n), Abs(d))
        s == IF d < 0 THEN -1 ELSE 1
    IN  [n |-> s * (n \div g), d |-> s * (d \div g)]

\* rationals: the coefficients of a number
Zero == [n |-> 0, d |-> 1]
RatAdd(a, b) == Norm(a.n * b.d + b.n * a.d, a.d * b.d)
RatMul(a, b) == Norm(a.n * b.n, a.d * b.d)
RatDiv(a, b) == Norm(a.n * b.d, a.d * b.n)

\* ------------------------------------------------------- binary64 numbers
\* A JS number is an IEEE 754 binary64.  Naturals of any size are sequences
\* of bits, most significant first, without leading zeros (0 is <<>>).
Zeros(k) == [i \in 1..k |-> 0]

Strip(b) ==
    IF \A i \in 1..Len(b) : b[i] = 0 THEN <<>>
    ELSE SubSeq(b, CHOOSE i \in 1..Len(b) : b[i] = 1 /\ \A j \in 1..(i - 1) : b[j] = 0,
                Len(b))

RECURSIVE BitsOf(_)
BitsOf(k) == IF k = 0 THEN <<>> ELSE Append(BitsOf(k \div 2), k % 2)

\* The operations go over the bits by halves, the carry (borrow, remainder)
\* of one half entering the other.
\* one column of a + sign * b: the bit, and the carry (0, 1) or borrow (-1)
AddStep(x, y, c, sign) ==
    [bits |-> <<(x + sign * y + c) % 2>>, c |-> (x + sign * y + c) \div 2]

AddJoin(L, R) == [bits |-> L.bits \o R.bits, c |-> L.c]

\* the columns lo..hi of a + sign * b, for a and b of one length
RECURSIVE AddRange(_, _, _, _, _, _)
RECURSIVE AddLeft(_, _, _, _, _, _)
\* (a carry other than 0 is 1 in a sum and -1 in a difference)
AddLeft(a, b, lo, hi, R, sign) ==
    IF R.c = 0 THEN AddJoin(AddRange(a, b, lo, hi, 0, sign), R)
    ELSE AddJoin(AddRange(a, b, lo, hi, sign, sign), R)

AddRange(a, b, lo, hi, c, sign) ==
    IF lo = hi THEN AddStep(a[lo], b[lo], c, sign)
    ELSE AddLeft(a, b, lo, (lo + hi) \div 2,
                 AddRange(a, b, (lo + hi) \div 2 + 1, hi, c, sign), sign)

Pad(b, k) == Zeros(k - Len(b)) \o b
WithCarry(R) == IF R.c = 1 THEN <<1>> \o R.bits ELSE R.bits

BAddPadded(a, b, k) == WithCarry(AddRange(Pad(a, k), Pad(b, k), 1, k, 0, 1))

BAdd(a, b) ==
    IF a = <<>> THEN b ELSE IF b = <<>> THEN a
    ELSE BAddPadded(a, b, IF Len(a) > Len(b) THEN Len(a) ELSE Len(b))

\* a - b, for a >= b
BSub(a, b) ==
    IF b = <<>> THEN a
    ELSE Strip(AddRange(a, Pad(b, Len(a)), 1, Len(a), 0, -1).bits)

BLess(a, b) ==
    \/ Len(a) < Len(b)
    \/ /\ Len(a) = Len(b)
       /\ \E i \in 1..Len(a) : a[i] < b[i] /\ \A j \in 1..(i - 1) : a[j] = b[j]

ShiftLeft(b, k) == IF b = <<>> THEN b ELSE b \o Zeros(k)

\* a * b = a * (upper half of b) * 2^k + a * (lower k bits of b)
RECURSIVE BMul(_, _)
BMul(a, b) ==
    IF a = <<>> \/ b = <<>> THEN <<>>
    ELSE IF Len(b) = 1 THEN a
    ELSE BAdd(ShiftLeft(BMul(a, SubSeq(b, 1, Len(b) \div 2)), Len(b) - Len(b) \div 2),
              BMul(a, Strip(SubSeq(b, Len(b) \div 2 + 1, Len(b)))))

\* one step of the long division: the remainder r with the next bit appended
DivStep(r, b) ==
    IF BLess(r, b) THEN [q |-> <<0>>, r |-> r] ELSE [q |-> <<1>>, r |-> BSub(r, b)]

DivJoin(L, R) == [q |-> L.q \o R.q, r |-> R.r]

\* the long division of the bits lo..hi of a by b, entered with remainder r
RECURSIVE DivRange(_, _, _, _, _)
RECURSIVE DivRight(_, _, _, _, _)
DivRight(a, b, L, lo, hi) == DivJoin(L, DivRange(a, b, L.r, lo, hi))

DivRange(a, b, r, lo, hi) ==
    IF lo = hi THEN DivStep(Strip(Append(r, a[lo])), b)
    ELSE DivRight(a, b, DivRange(a, b, r, lo, (lo + hi) \div 2),
                  (lo + hi) \div 2 + 1, hi)

Stripped(qr) == [q |-> Strip(qr.q), r |-> qr.r]

\* the quotient and the remainder of a by b, a not 0
BDiv(a, b) == Stripped(DivRange(a, b, <<>>, 1, Len(a)))

\* the number of trailing zero bits, and the bits before them
TrailingZeros(b) ==
    IF b = <<>> THEN 0
    ELSE Len(b) - (CHOOSE i \in 1..Len(b) :
                       b[i] = 1 /\ \A j \in (i + 1)..Len(b) : b[j] = 0)
OddPart(b) == SubSeq(b, 1, Len(b) - TrailingZeros(b))

\* A binary64 other than 0 is [s, m, e]: sign s, 53 bits m with m[1] = 1, and
\* the value s * m * 2^e.  The exponents of the model stay far inside the
\* range of the format: no overflow, no subnormal numbers.  0 is <<Zero>>.
Binary64(s, bits, e) == <<[s |-> s, m |-> bits, e |-> e]>>

\* round to nearest, ties to even: the binary64 nearest to s * bits * 2^e,
\* or to a value slightly above it when sticky (bits then has over 54 bits)
RoundUp(bits, sticky) ==
    /\ bits[54] = 1
    /\ (sticky \/ bits[53] = 1 \/ \E i \in 55..Len(bits) : bits[i] = 1)

Carry(s, k, e) ==
    IF Len(k) = 54 THEN Binary64(s, SubSeq(k, 1, 53), e + 1) ELSE Binary64(s, k, e)

Round(s, bits, e, sticky) ==
    IF bits = <<>> THEN <<Zero>>
    ELSE IF Len(bits) <= 53
         THEN Binary64(s, bits \o Zeros(53 - Len(bits)), e - (53 - Len(bits)))
         ELSE Carry(s, IF RoundUp(bits, sticky) THEN BAdd(SubSeq(bits, 1, 53), <<1>>)
                                                ELSE SubSeq(bits, 1, 53),
                    e + Len(bits) - 53)

\* x * y, x / y, x + y of binary64 records (y not 0 in a division)
FMul(x, y) ==
    Round(x.s * y.s,
          BMul(OddPart(IF TrailingZeros(x.m) > TrailingZeros(y.m) THEN y.m ELSE x.m),
               OddPart(IF TrailingZeros(x.m) > TrailingZeros(y.m) THEN x.m ELSE y.m)),
          x.e + TrailingZeros(x.m) + y.e + TrailingZeros(y.m), FALSE)

Quotient(s, qr, e) == Round(s, qr.q, e, qr.r # <<>>)

FDiv(x, y) ==
    Quotient(x.s * y.s, BDiv(x.m \o Zeros(Len(OddPart(y.m)) + 2), OddPart(y.m)),
             x.e - (Len(OddPart(y.m)) + 2) - (y.e + TrailingZeros(y.m)))

\* the sign and the bits of x + y, both written with the exponent e
Aligned(x, e) == x.m \o Zeros(x.e - e)

SignedSum(s, a, t, b) ==
    IF s = t THEN [s |-> s, bits |-> BAdd(a, b)]
    ELSE IF BLess(a, b) THEN [s |-> t, bits |-> BSub(b, a)]
    ELSE [s |-> s, bits |-> IF a = b THEN <<>> ELSE BSub(a, b)]

Rounded(sum, e) == Round(sum.s, sum.bits, e, FALSE)

FAddAt(x, y, e) == Rounded(SignedSum(x.s, Aligned(x, e), y.s, Aligned(y, e)), e)

FAdd(x, y) == FAddAt(x, y, IF x.e < y.e THEN x.e ELSE y.e)

\* the binary64 of the literal 1e-10: 0x1.b7cdfd9d7bdbbp-34
Epsilon64 ==
    Binary64(1, <<1,1,0,1,1,0,1,1,1,1,1,0,0,1,1,0,1,1,1,1,1,1,1,0,1,1,0,0,1,1,1,0,
                  1,0,1,1,1,1,0,1,1,1,1,0,1,1,0,1,1,1,0,1,1>>, -86)

\* binary64 arithmetic on a pair p of numbers, each <<Zero>> or a binary64
IsFloat(a) == "m" \in DOMAIN a[1]
DAdd(p) ==
    IF p[1] = <<Zero>> THEN p[2] ELSE IF p[2] = <<Zero>> THEN p[1]
    ELSE FAdd(p[1][1], p[2][1])
DMul(p) ==
    IF p[1] = <<Zero>> \/ p[2] = <<Zero>> THEN <<Zero>> ELSE FMul(p[1][1], p[2][1])
DDiv(p) == IF p[1] = <<Zero>> THEN <<Zero>> ELSE FDiv(p[1][1], p[2][1])
DNeg(a) == IF a = <<Zero>> THEN a ELSE Binary64(-a[1].s, a[1].m, a[1].e)

\* the binary64 of an integer literal
IntDouble(i) == Round(IF i < 0 THEN -1 ELSE 1, BitsOf(IF i < 0 THEN -i ELSE i), 0, FALSE)

\* the binary64 of an operand: the exact operands of a binary64 operation
\* are the literal 1e-10, its negation in a - 1e-10, and the rationals n/d,
\* the quotient of two integers
Double(a) ==
    IF IsFloat(a) THEN a
    ELSE IF Len(a) > 1 THEN (IF a[2].n < 0 THEN DNeg(Epsilon64) ELSE Epsilon64)
    ELSE DDiv([i \in 1..2 |-> IntDouble(<<a[1].n, a[1].d>>[i])])

Doubles(a, b) == [i \in 1..2 |-> Double(<<a, b>>[i])]

\* ------------------------------------------------------------ arithmetic
\* The arithmetic of the library, on exact numbers and on binary64 numbers:
\* an operation with a binary64 operand is the binary64 operation.
\* A number is a polynomial in E = 1e-10 with rational coefficients,
\* <<a0, a1, ...>> standing for a0 + a1*E + ...: 1e-10 and its multiples are
\* numbers like 3 and 1/2, and sums and products of them are exact.  The
\* last coefficient is not zero, except in the number 0 = <<Zero>>.
RECURSIVE Trim(_)
Trim(p) ==
    IF Len(p) > 1 /\ p[Len(p)] = Zero THEN Trim(SubSeq(p, 1, Len(p) - 1)) ELSE p

Coef(p, i) == IF i \in 1..Len(p) THEN p[i] ELSE Zero

QInt(i) == <<[n |-> i, d |-> 1]>>
QAdd(a, b) ==
    IF IsFloat(a) \/ IsFloat(b) THEN DAdd(Doubles(a, b))
    ELSE IF Len(a) = 1 /\ Len(b) = 1 THEN <<RatAdd(a[1], b[1])>>
    ELSE Trim([i \in 1..(IF Len(a) > Len(b) THEN Len(a) ELSE Len(b)) |->
                  RatAdd(Coef(a, i), Coef(b, i))])
QNeg(a) ==
    IF IsFloat(a) THEN DNeg(a)
    ELSE IF Len(a) = 1 THEN <<[n |-> -a[1].n, d |-> a[1].d]>>
    ELSE [i \in 1..Len(a) |-> [n |-> -a[i].n, d |-> a[i].d]]
QSub(a, b) == QAdd(a, QNeg(b))

\* the coefficient of E^(k-1) in a product: a[1]*b[k] + ... + a[i]*b[k+1-i]
RECURSIVE Conv(_, _, _, _)
Conv(a, b, k, i) ==
    IF i = 0 THEN Zero
    ELSE RatAdd(RatMul(Coef(a, i), Coef(b, k + 1 - i)), Conv(a, b, k, i - 1))

ExactMul(a, b) ==
    IF Len(a) = 1 /\ Len(b) = 1 THEN <<RatMul(a[1], b[1])>>
    ELSE Trim([k \in 1..(Len(a) + Len(b) - 1) |-> Conv(a, b, k, k)])

QMul(a, b) ==
    IF IsFloat(a) \/ IsFloat(b) THEN DMul(Doubles(a, b)) ELSE ExactMul(a, b)

\* the divisors of the library are power + 1 and deno: rationals
QDiv(a, b) ==
    IF IsFloat(a) \/ IsFloat(b) THEN DDiv(Doubles(a, b))
    ELSE IF Len(a) = 1 THEN <<RatDiv(a[1], b[1])>>
    ELSE [i \in 1..Len(a) |-> RatDiv(a[i], b[1])]

\* the sign of a number is the sign of its first non-zero coefficient (the
\* coefficients stay far below 1e5 in absolute value and denominator)
QSign(a) ==
    IF IsFloat(a) THEN a[1].s
    ELSE IF \A i \in 1..Len(a) : a[i].n = 0 THEN 0
    ELSE LET low == CHOOSE i \in 1..Len(a) :
                        a[i].n # 0 /\ \A j \in 1..(i - 1) : a[j].n = 0
         IN  IF a[low].n < 0 THEN -1 ELSE 1
QAbs(a) == IF QSign(a) < 0 THEN QNeg(a) ELSE a
QLess(a, b) == QSign(QSub(b, a)) > 0

\* the literal 1e-10
Epsilon == <<Zero, [n |-> 1, d |-> 1]>>

\* the bases of the model are small integers: their powers are
\* computed exactly, and rounded when they enter a binary64 operation
RECURSIVE NatPow(_, _)
NatPow(a, k) == IF k = 0 THEN QInt(1) ELSE ExactMul(a, NatPow(a, k - 1))

\* Math.pow(base, exponent) for an integer exponent
MathPow(a, k) == IF k >= 0 THEN NatPow(a, k) ELSE QDiv(QInt(1), NatPow(a, -k))

\* ------------------------------------------- JS objects used as key/value maps
\* term.var is a JS object; its keys are kept in insertion order.
HasKey(var, v) == \E i \in 1..Len(var) : var[i][1] = v
Get(var, v) == var[CHOOSE i \in 1..Len(var) : var[i][1] = v][2]
SetKey(var, v, p) ==
    IF HasKey(var, v)
    THEN [i \in 1..Len(var) |-> IF var[i][1] = v THEN <<v, p>> ELSE var[i]]
    ELSE Append(var, <<v, p>>)
DeleteKey(var, v) ==
    LET keep(e) == e[1] # v IN SelectSeq(var, keep)

\* ------------------------------------------------------------------- store
EmptyStore == [T |-> <<>>, F |-> <<>>, warn |-> 0]

\* a new term object {coeff, var}
NewTerm(S, tv) == [S |-> [S EXCEPT !.T = Append(@, tv)], r |-> Len(S.T) + 1]

\* a new fraction object {numi: {terms}, deno}
NewFraction(S, terms, deno) ==
    [S |-> [S EXCEPT !.F = Append(@, [terms |-> terms, deno |-> deno])],
     r |-> Len(S.F) + 1]

\* Array.prototype.map with a callback that allocates: the store is threaded
\* through the calls in index order.
RECURSIVE MapS(_, _, _)
MapS(Op(_, _), S, ids) ==
    IF ids = <<>> THEN [S |-> S, r |-> <<>>]
    ELSE LET h == Op(S, Head(ids))
             t == MapS(Op, h.S, Tail(ids))
         IN  [S |-> t.S, r |-> <<h.r>> \o t.r]

\* ------------------------------------------------------------- deep copies
\* deepClone(obj) = JSON.parse(JSON.stringify(obj)) of a term: a new object
\* with the same finite coefficient and the same keys in the same order.
\* faulty variant, for comparison: no copy is made
deepCloneTermAlias(S, t) == [S |-> S, r |-> t]

deepCloneTerm(S, t) == NewTerm(S, S.T[t])

\* deepClone of an array of terms
deepCloneTerms(S, ids) == MapS(deepCloneTerm, S, ids)

\* deepClone of a fraction
deepCloneFraction(S, f) ==
    LET c == deepCloneTerms(S, S.F[f].terms)
    IN  NewFraction(c.S, c.r, S.F[f].deno)

\* ------------------------------------------------------------- creation
createTerm(S, coeff, vs) ==
    NewTerm(S, [coeff |-> coeff, hasVar |-> Len(vs) > 0, var |-> vs])

createFraction(S, terms, deno) ==
    LET c == deepCloneTerms(S, terms)
    IN  NewFraction(c.S, c.r, deno)

\* ------------------------------------------------- statements on a term
\* term.var?.[indvar] ?? 0
PowerOf(S, t, indvar) ==
    IF S.T[t].hasVar /\ HasKey(S.T[t].var, indvar)
    THEN Get(S.T[t].var, indvar) ELSE 0

\* t.coeff = q
SetCoeff(S, t, q) == [S EXCEPT !.T[t].coeff = q]

\* if (!t.var) { t.var = {}; }
EnsureVar(S, t) == [S EXCEPT !.T[t].hasVar = TRUE]

\* t.var[indvar] = p
PutVar(S, t, indvar, p) == [S EXCEPT !.T[t].var = SetKey(@, indvar, p)]

\* delete t.var[indvar]; if (Object.keys(t.var).length === 0) delete t.var;
DeleteVar(S, t, indvar) ==
    [S EXCEPT !.T[t].var = DeleteKey(@, indvar),
              !.T[t].hasVar = Len(DeleteKey(S.T[t].var, indvar)) > 0]

\* ------------------------------------------------------------- integration
\* faulty variant, for comparison: the power is incremented before the coefficient is divided
IntegrateInPlaceLate(S, newTerm, indvar) ==
    PutVar(EnsureVar(SetCoeff(S, newTerm,
                              QDiv(S.T[newTerm].coeff,
                                   QInt(PowerOf(S, newTerm, indvar) + 2))),
                     newTerm),
           newTerm, indvar, PowerOf(S, newTerm, indvar) + 1)

\* the statements of integrateTerm after the clone, on the object newTerm
IntegrateInPlace(S, newTerm, indvar) ==
    PutVar(EnsureVar(SetCoeff(S, newTerm,
                              QDiv(S.T[newTerm].coeff,
                                   QInt(PowerOf(S, newTerm, indvar) + 1))),
                     newTerm),
           newTerm, indvar, PowerOf(S, newTerm, indvar) + 1)

integrateTerm(S, term, indvar) ==
    LET c == deepCloneTerm(S, term)
    IN  [S |-> IntegrateInPlace(c.S, c.r, indvar), r |-> c.r]

integrateFraction(S, fraction, indvar) ==
    LET c == deepCloneFraction(S, fraction)
        f(s, t) == integrateTerm(s, t, indvar)
        m == MapS(f, c.S, c.S.F[c.r].terms)
    IN  [S |-> [m.S EXCEPT !.F[c.r].terms = m.r], r |-> c.r]

\* faulty variant, for comparison: lowerValue - upperValue
BoundsDiffSwapped(S, integratedTerm, lower, upper, indvar) ==
    QSub(MathPow(lower, PowerOf(S, integratedTerm, indvar)),
         MathPow(upper, PowerOf(S, integratedTerm, indvar)))

\* faulty variant, for comparison: lowerValue is not subtracted
BoundsDiffUpperOnly(S, integratedTerm, lower, upper, indvar) ==
    MathPow(upper, PowerOf(S, integratedTerm, indvar))

\* upperValue - lowerValue, from the power of indvar in the integrated term
BoundsDiff(S, integratedTerm, lower, upper, indvar) ==
    QSub(MathPow(upper, PowerOf(S, integratedTerm, indvar)),
         MathPow(lower, PowerOf(S, integratedTerm, indvar)))

\* the statements of definiteIntegrateTerm on the clone resultTerm
DefiniteInPlace(S, resultTerm, boundsDiff, indvar) ==
    IF S.T[resultTerm].hasVar
    THEN DeleteVar(SetCoeff(S, resultTerm, QMul(S.T[resultTerm].coeff, boundsDiff)),
                   resultTerm, indvar)
    ELSE SetCoeff(S, resultTerm, QMul(S.T[resultTerm].coeff, boundsDiff))

\* definiteIntegrateTerm from the integrated term i on
DefiniteFromIntegrated(i, c, lower, upper, indvar) ==
    [S |-> DefiniteInPlace(c.S, c.r, BoundsDiff(i.S, i.r, lower, upper, indvar), indvar),
     r |-> c.r]

DefiniteClone(i, lower, upper, indvar) ==
    DefiniteFromIntegrated(i, deepCloneTerm(i.S, i.r), lower, upper, indvar)

definiteIntegrateTerm(S, term, lower, upper, indvar) ==
    DefiniteClone(integrateTerm(S, term, indvar), lower, upper, indvar)

\* faulty variant, for comparison: the test of the denominator is inverted
WarnIfUnit(S, fraction) ==
    IF S.F[fraction].deno = QInt(1) THEN [S EXCEPT !.warn = @ + 1] ELSE S

\* console.warn(...) when fraction.deno !== 1
WarnIfDeno(S, fraction) ==
    IF S.F[fraction].deno # QInt(1) THEN [S EXCEPT !.warn = @ + 1] ELSE S

DefiniteFraction(m, deno) == NewFraction(m.S, m.r, deno)

definiteIntegrateFraction(S, fraction, lower, upper, indvar) ==
    LET f(s, t) == definiteIntegrateTerm(s, t, lower, upper, indvar)
    IN  DefiniteFraction(MapS(f, WarnIfDeno(S, fraction), S.F[fraction].terms),
                         S.F[fraction].deno)

\* --------------------------------------------------------- differentiation
\* faulty variant, for comparison: the key is kept with exponent 0
DifferentiateInPlaceKeepZero(S, newTerm, indvar, power) ==
    PutVar(SetCoeff(S, newTerm, QMul(S.T[newTerm].coeff, QInt(power))),
           newTerm, indvar, power - 1)

\* the statements of differentiateTerm on the clone newTerm, power defined
DifferentiateInPlace(S, newTerm, indvar, power) ==
    IF power = 1
    THEN DeleteVar(SetCoeff(S, newTerm, QMul(S.T[newTerm].coeff, QInt(power))),
                   newTerm, indvar)
    ELSE PutVar(SetCoeff(S, newTerm, QMul(S.T[newTerm].coeff, QInt(power))),
                newTerm, indvar, power - 1)

DifferentiateClone(c, indvar) ==
    IF ~(c.S.T[c.r].hasVar /\ HasKey(c.S.T[c.r].var, indvar))
    THEN createTerm(c.S, QInt(0), <<>>)
    ELSE [S |-> DifferentiateInPlace(c.S, c.r, indvar, Get(c.S.T[c.r].var, indvar)),
          r |-> c.r]

differentiateTerm(S, term, indvar) ==
    DifferentiateClone(deepCloneTerm(S, term), indvar)

\* faulty variant, for comparison: zero terms are not removed
NoFilter(S, ids) == ids

\* the filter of differentiateFraction: term => term.coeff !== 0
NonZeroCoeff(S, ids) ==
    LET keep(t) == S.T[t].coeff # QInt(0) IN SelectSeq(ids, keep)

Returned(r) == [S |-> r.S, r |-> r.r, ok |-> TRUE]
Threw(S) == [S |-> S, r |-> 0, ok |-> FALSE]

DerivativeFraction(m) == NewFraction(m.S, NonZeroCoeff(m.S, m.r), QInt(1))

differentiateFraction(S, fraction, indvar) ==
    IF S.F[fraction].deno = QInt(1)
    THEN LET f(s, t) == differentiateTerm(s, t, indvar)
         IN  Returned(DerivativeFraction(MapS(f, S, S.F[fraction].terms)))
    ELSE Threw(S)

\* ---------------------------------------------------------- simplification
\* the Map key of a term: JSON.stringify(term.var), or 'constant' when
\* term.var is absent.  The JSON text lists the keys in insertion order.
varKey(tv) == [constant |-> ~tv.hasVar, json |-> tv.var]

\* faulty variant, for comparison: Math.abs(term.coeff) >= 1e-10
AtLeastEpsilon(q) == ~QLess(QAbs(q), Epsilon)

\* Math.abs(term.coeff) > 1e-10
AboveEpsilon(q) == QLess(Epsilon, QAbs(q))

\* the loop of simplifyFraction over the numerator; termMap is the Map, as
\* the list of its (key, term object) entries in insertion order
RECURSIVE CombineLikeTerms(_, _, _)
CombineLikeTerms(S, ids, termMap) ==
    IF ids = <<>> THEN [S |-> S, r |-> termMap]
    ELSE LET term == Head(ids)
             k == varKey(S.T[term])
             has == \E i \in 1..Len(termMap) : termMap[i][1] = k
             hit == termMap[CHOOSE i \in 1..Len(termMap) : termMap[i][1] = k][2]
             c == deepCloneTerm(S, term)
         IN  IF has
             THEN CombineLikeTerms(SetCoeff(S, hit, QAdd(S.T[hit].coeff, S.T[term].coeff)),
                                   Tail(ids), termMap)
             ELSE CombineLikeTerms(c.S, Tail(ids), Append(termMap, <<k, c.r>>))

\* faulty variant, for comparison: the kept terms are listed last to first
SimplifiedTermsReversed(S, termMap) ==
    LET keep(t) == AboveEpsilon(S.T[t].coeff)
    IN  SelectSeq([i \in 1..Len(termMap) |-> termMap[Len(termMap) + 1 - i][2]], keep)

\* Array.from(termMap.values()).filter(term => Math.abs(term.coeff) > 1e-10)
SimplifiedTerms(S, termMap) ==
    LET keep(t) == AboveEpsilon(S.T[t].coeff)
    IN  SelectSeq([i \in 1..Len(termMap) |-> termMap[i][2]], keep)

\* faulty variant, for comparison: the simplified fraction gets denominator 1
SimplifiedFractionUnit(m, deno) == NewFraction(m.S, SimplifiedTerms(m.S, m.r), QInt(1))

SimplifiedFraction(m, deno) == NewFraction(m.S, SimplifiedTerms(m.S, m.r), deno)

simplifyFraction(S, fraction) ==
    SimplifiedFraction(CombineLikeTerms(S, S.F[fraction].terms, <<>>),
                       S.F[fraction].deno)

simplifyProduct(S, product) == MapS(simplifyFraction, S, product)

simplifyEquation(S, equation) == MapS(simplifyProduct, S, equation)

\* --------------------------------------------------------------- expansion
\* the second loop of multiplyTerms: vars[v] = (vars[v] || 0) + pow
RECURSIVE AddPowers(_, _)
AddPowers(vs, entries) ==
    IF entries = <<>> THEN vs
    ELSE LET v == Head(entries)[1]
             pow == Head(entries)[2]
             cur == IF HasKey(vs, v) THEN Get(vs, v) ELSE 0
         IN  AddPowers(SetKey(vs, v, cur + pow), Tail(entries))

multiplyTerms(S, term1, term2) ==
    LET a == S.T[term1]
        b == S.T[term2]
        v1 == IF a.hasVar THEN AddPowers(<<>>, a.var) ELSE <<>>
        v2 == IF b.hasVar THEN AddPowers(v1, b.var) ELSE v1
    IN  NewTerm(S, [coeff |-> QMul(a.coeff, b.coeff),
                    hasVar |-> Len(v2) > 0,
                    var |-> v2])

\* the nested loops of expandFractions, in push order
Pairs(ts1, ts2) ==
    [k \in 1..(Len(ts1) * Len(ts2)) |->
        <<ts1[((k - 1) \div Len(ts2)) + 1], ts2[((k - 1) % Len(ts2)) + 1]>>]

\* simplifyFraction({numi: {terms: expandedTerms}, deno: 1})
SimplifyLiteral(lit) == simplifyFraction(lit.S, lit.r)

ExpandedFraction(m) == SimplifyLiteral(NewFraction(m.S, m.r, QInt(1)))

\* faulty variant, for comparison: the guard fails only when both denominators differ from 1
expandFractionsBoth(S, frac1, frac2) ==
    IF S.F[frac1].deno # QInt(1) /\ S.F[frac2].deno # QInt(1)
    THEN Threw(S)
    ELSE LET f(s, pr) == multiplyTerms(s, pr[1], pr[2])
         IN  Returned(ExpandedFraction(
                 MapS(f, S, Pairs(S.F[frac1].terms, S.F[frac2].terms))))

expandFractions(S, frac1, frac2) ==
    IF S.F[frac1].deno # QInt(1) \/ S.F[frac2].deno # QInt(1)
    THEN Threw(S)
    ELSE LET f(s, pr) == multiplyTerms(s, pr[1], pr[2])
         IN  Returned(ExpandedFraction(
                 MapS(f, S, Pairs(S.F[frac1].terms, S.F[frac2].terms))))

\* the loop of expandProduct from index i, result being the running fraction
RECURSIVE ExpandFrom(_, _, _, _)
ExpandFrom(S, product, i, result) ==
    IF i > Len(product) THEN [S |-> S, r |-> result, ok |-> TRUE]
    ELSE LET e == expandFractions(S, result, product[i])
         IN  IF e.ok THEN ExpandFrom(e.S, product, i + 1, e.r) ELSE e

\* faulty variant, for comparison: a single fraction is simplified
expandProductSimplifying(S, product) ==
    IF Len(product) = 0
    THEN LET one == createTerm(S, QInt(1), <<>>)
         IN  Returned(createFraction(one.S, <<one.r>>, QInt(1)))
    ELSE IF Len(product) = 1 THEN Returned(simplifyFraction(S, product[1]))
    ELSE ExpandFrom(S, product, 2, product[1])

expandProduct(S, product) ==
    IF Len(product) = 0
    THEN LET one == createTerm(S, QInt(1), <<>>)
         IN  Returned(createFraction(one.S, <<one.r>>, QInt(1)))
    ELSE ExpandFrom(S, product, 2, product[1])

\* ------------------------------------------------------------ product rule
\* the inner loop of productRuleDifferentiate: the differentiated factor i
\* multiplied with every other factor, from index j on
RECURSIVE TimesOthers(_, _, _, _, _)
TimesOthers(S, productArray, i, j, factors) ==
    IF j > Len(productArray) THEN [S |-> S, r |-> factors, ok |-> TRUE]
    ELSE IF i = j THEN TimesOthers(S, productArray, i, j + 1, factors)
    ELSE LET e == expandFractions(S, factors, productArray[j])
         IN  IF e.ok THEN TimesOthers(e.S, productArray, i, j + 1, e.r) ELSE e

\* one round of the outer loop: differentiateFraction, then the inner loop
DifferentiatedFactor(d, productArray, i) ==
    IF d.ok THEN TimesOthers(d.S, productArray, i, 1, d.r) ELSE d

\* the outer loop from index i, resultTerms being the terms pushed so far
RECURSIVE ProductRuleLoop(_, _, _, _, _)
ProductRuleLoop(S, productArray, indvar, i, resultTerms) ==
    IF i > Len(productArray)
    THEN Returned(SimplifyLiteral(NewFraction(S, resultTerms, QInt(1))))
    ELSE LET p == DifferentiatedFactor(differentiateFraction(S, productArray[i], indvar),
                                       productArray, i)
         IN  IF p.ok
             THEN ProductRuleLoop(p.S, productArray, indvar, i + 1,
                                  resultTerms \o p.S.F[p.r].terms)
             ELSE p

productRuleDifferentiate(S, productArray, indvar) ==
    IF Len(productArray) = 0
    THEN LET zero == createTerm(S, QInt(0), <<>>)
         IN  Returned(createFraction(zero.S, <<zero.r>>, QInt(1)))
    ELSE IF Len(productArray) = 1
    THEN differentiateFraction(S, productArray[1], indvar)
    ELSE ProductRuleLoop(S, productArray, indvar, 1, <<>>)

\* -------------------------------------------------------------- evaluation
\* values is the bindings object: a function from the bound names to numbers;
\* values[variable] === undefined when the name is not in its domain.
\* Every evaluation returns [ok, val]: ok = FALSE when the Error was thrown.
Thrown == [ok |-> FALSE, val |-> QInt(0)]

\* the loop of evaluateTerm over Object.entries(term.var)
RECURSIVE EvalEntries(_, _, _)
EvalEntries(result, entries, values) ==
    IF entries = <<>> THEN [ok |-> TRUE, val |-> result]
    ELSE LET variable == Head(entries)[1]
             power == Head(entries)[2]
         IN  IF variable \notin DOMAIN values THEN Thrown
             ELSE EvalEntries(QMul(result, MathPow(values[variable], power)),
                              Tail(entries), values)

\* faulty variant, for comparison: a zero coefficient short-circuits the loop
evaluateTermZeroShortcut(S, term, values) ==
    IF S.T[term].hasVar /\ S.T[term].coeff # QInt(0)
    THEN EvalEntries(S.T[term].coeff, S.T[term].var, values)
    ELSE [ok |-> TRUE, val |-> S.T[term].coeff]

evaluateTerm(S, term, values) ==
    IF S.T[term].hasVar
    THEN EvalEntries(S.T[term].coeff, S.T[term].var, values)
    ELSE [ok |-> TRUE, val |-> S.T[term].coeff]

\* the loop of evaluateFraction: numeratorSum += evaluateTerm(term, values)
RECURSIVE SumTerms(_, _, _, _)
SumTerms(S, numeratorSum, terms, values) ==
    IF terms = <<>> THEN [ok |-> TRUE, val |-> numeratorSum]
    ELSE LET e == evaluateTerm(S, Head(terms), values)
         IN  IF ~e.ok THEN Thrown
             ELSE SumTerms(S, QAdd(numeratorSum, e.val), Tail(terms), values)

\* faulty variant, for comparison: the sum is not divided by the denominator
evaluateFractionNoDeno(S, fraction, values) ==
    SumTerms(S, QInt(0), S.F[fraction].terms, values)

evaluateFraction(S, fraction, values) ==
    LET s == SumTerms(S, QInt(0), S.F[fraction].terms, values)
    IN  IF ~s.ok THEN Thrown
        ELSE [ok |-> TRUE, val |-> QDiv(s.val, S.F[fraction].deno)]

\* the loop of evaluateProduct: result *= evaluateFraction(fraction, values)
RECURSIVE MulFractions(_, _, _, _)
MulFractions(S, result, product, values) ==
    IF product = <<>> THEN [ok |-> TRUE, val |-> result]
    ELSE LET e == evaluateFraction(S, Head(product), values)
         IN  IF ~e.ok THEN Thrown
             ELSE MulFractions(S, QMul(result, e.val), Tail(product), values)

evaluateProduct(S, product, values) == MulFractions(S, QInt(1), product, values)

\* the loop of evaluateEquation: result += evaluateProduct(product, values)
RECURSIVE SumProducts(_, _, _, _)
SumProducts(S, result, equation, values) ==
    IF equation = <<>> THEN [ok |-> TRUE, val |-> result]
    ELSE LET e == evaluateProduct(S, Head(equation), values)
         IN  IF ~e.ok THEN Thrown
             ELSE SumProducts(S, QAdd(result, e.val), Tail(equation), values)

evaluateEquation(S, equation, values) == SumProducts(S, QInt(0), equation, values)

\* ----------------------------------------------------- calculation helpers
\* bounds is Object.entries(bounds): the list of <<variable, lower, upper>>
RECURSIVE RegionLoop(_, _, _)
RegionLoop(S, result, bounds) ==
    IF bounds = <<>> THEN [S |-> S, r |-> result]
    ELSE LET b == Head(bounds)
             n == SimplifyLiteral(definiteIntegrateFraction(S, result, b[2], b[3], b[1]))
         IN  RegionLoop(n.S, n.r, Tail(bounds))

\* faulty variant, for comparison: the entries of bounds are taken from the last to the first
integralOverRegionReversed(S, expr, bounds) ==
    LET c == deepCloneFraction(S, expr)
    IN  RegionLoop(c.S, c.r, [i \in 1..Len(bounds) |-> bounds[Len(bounds) + 1 - i]])

integralOverRegion(S, expr, bounds) ==
    LET c == deepCloneFraction(S, expr)
    IN  RegionLoop(c.S, c.r, bounds)

RECURSIVE DerivativeLoop(_, _, _, _)
DerivativeLoop(S, result, variable, left) ==
    IF left = 0 THEN [S |-> S, r |-> result, ok |-> TRUE]
    ELSE LET d == differentiateFraction(S, result, variable)
             n == SimplifyLiteral(d)
         IN  IF ~d.ok THEN d
             ELSE DerivativeLoop(n.S, n.r, variable, left - 1)

partialDerivative(S, expr, variable, order) ==
    LET c == deepCloneFraction(S, expr)
    IN  DerivativeLoop(c.S, c.r, variable, order)

\* ------------------------------------------------------------ Taylor series
\* n === 0 ? 1 : [1..n].reduce((a, b) => a * b)
RECURSIVE Factorial(_)
Factorial(n) == IF n = 0 THEN 1 ELSE n * Factorial(n - 1)

\* the term pushed in round n for f^(n)(center) = value: none when
\* |value| <= 1e-10, createTerm(value) when n = 0, else
\* createTerm(value / factorial, {[variable]: n})
TaylorPush(S, terms, value, variable, n) ==
    IF ~AboveEpsilon(value) THEN [S |-> S, r |-> terms]
    ELSE LET t == IF n = 0 THEN createTerm(S, value, <<>>)
                  ELSE createTerm(S, QDiv(value, QInt(Factorial(n))), <<<<variable, n>>>>)
         IN  [S |-> t.S, r |-> Append(terms, t.r)]

\* the next derivative, taken in every round but the last
TaylorDerivative(S, currentDerivative, variable, n, order) ==
    IF n < order - 1 THEN differentiateFraction(S, currentDerivative, variable)
    ELSE [S |-> S, r |-> currentDerivative, ok |-> TRUE]

\* the loop of taylorSeries from round n, and the returned series
RECURSIVE TaylorLoop(_, _, _, _, _, _, _)

\* the end of round n, m being the store and the terms after the push: the
\* next derivative, then round n + 1
TaylorAdvance(currentDerivative, variable, center, order, n, m) ==
    LET d == TaylorDerivative(m.S, currentDerivative, variable, n, order)
    IN  IF d.ok THEN TaylorLoop(d.S, d.r, variable, center, order, n + 1, m.r) ELSE d

\* round n, e being evaluateEquation([[currentDerivative]], {[variable]: center})
TaylorRound(S, currentDerivative, variable, center, order, n, terms, e) ==
    IF e.ok
    THEN TaylorAdvance(currentDerivative, variable, center, order, n,
                       TaylorPush(S, terms, e.val, variable, n))
    ELSE Threw(S)

TaylorLoop(S, currentDerivative, variable, center, order, n, terms) ==
    IF n >= order THEN Returned(createFraction(S, terms, QInt(1)))
    ELSE TaylorRound(S, currentDerivative, variable, center, order, n, terms,
                     evaluateEquation(S, <<<<currentDerivative>>>>,
                                      [w \in {variable} |-> center]))

\* taylorSeries(func, variable, center, order).series
taylorSeries(S, func, variable, center, order) ==
    LET c == deepCloneFraction(S, func)
    IN  TaylorLoop(c.S, c.r, variable, center, order, 0, <<>>)

\* JSON.stringify(fraction): the coefficients, the keys of every term in
\* insertion order (no `var` at all when the key is absent) and the deno
JSONText(S, f) ==
    [terms |-> [i \in 1..Len(S.F[f].terms) |-> S.T[S.F[f].terms[i]]],
     deno |-> S.F[f].deno]

\* JSON.stringify(simplifyFraction(original)) === JSON.stringify(simplified)
SameText(o, simplified) ==
    [S |-> o.S, r |-> JSONText(o.S, o.r) = JSONText(o.S, simplified), ok |-> TRUE]

VerifyDerivative(S, original, simplified) ==
    SameText(simplifyFraction(S, original), simplified)

VerifySimplified(original, simplified) ==
    VerifyDerivative(simplified.S, original, simplified.r)

verifyIntegration(S, original, integrated, variable) ==
    LET derivative == differentiateFraction(S, integrated, variable)
    IN  IF ~derivative.ok THEN [S |-> derivative.S, r |-> FALSE, ok |-> FALSE]
        ELSE VerifySimplified(original, simplifyFraction(derivative.S, derivative.r))

\* evaluateEquation([[fraction]], {})
ValueOf(r) == evaluateEquation(r.S, <<<<r.r>>>>, [d \in {} |-> QInt(0)])

integralValue(S, expr, bounds) == ValueOf(integralOverRegion(S, expr, bounds))

\* definiteIntegrateFraction(reg1, lower, upper, variable) on a returned fraction
DefiniteNext(reg1, b) == definiteIntegrateFraction(reg1.S, reg1.r, b[2], b[3], b[1])

\* faulty variant, for comparison: the second integral takes the bounds of the first
doubleIntegralSameBounds(S, f, bounds) ==
    ValueOf(DefiniteNext(DefiniteNext([S |-> S, r |-> f], bounds[1]),
                         <<bounds[2][1], bounds[1][2], bounds[1][3]>>))

\* reg1 = definiteIntegrateFraction(f, lo, hi, v);
\* reg2 = definiteIntegrateFraction(reg1, lo2, hi2, w); evaluateEquation([[reg2]], {})
doubleIntegral(S, f, bounds) ==
    ValueOf(DefiniteNext(DefiniteNext([S |-> S, r |-> f], bounds[1]), bounds[2]))

\* ------------------------------------------------------- equation builders
\* createTerm(coeff, powers) for one [coeff, powers] pair
TermOfPair(S, p) == createTerm(S, p[1], p[2])

\* [[createFraction(terms, 1)]]
OneFraction(m) ==
    [S |-> createFraction(m.S, m.r, QInt(1)).S,
     r |-> <<<<createFraction(m.S, m.r, QInt(1)).r>>>>]

\* the loop of polynomial: coeffs[i] is the coefficient of variable^(degree - i)
\* with i counted from 0; a zero coefficient is skipped
RECURSIVE PolynomialLoop(_, _, _, _, _)
PolynomialPush(m, terms, coeffs, variable, i) ==
    PolynomialLoop(m.S, Append(terms, m.r), coeffs, variable, i + 1)

PolynomialLoop(S, terms, coeffs, variable, i) ==
    IF i > Len(coeffs) THEN [S |-> S, r |-> terms]
    ELSE IF coeffs[i] = QInt(0) THEN PolynomialLoop(S, terms, coeffs, variable, i + 1)
    ELSE PolynomialPush(
            createTerm(S, coeffs[i],
                       IF Len(coeffs) - i = 0 THEN <<>>
                       ELSE <<<<variable, Len(coeffs) - i>>>>),
            terms, coeffs, variable, i)

polynomial(S, coeffs, variable) ==
    OneFraction(PolynomialLoop(S, <<>>, coeffs, variable, 1))

monomial(S, coeff, powers) == OneFraction(MapS(TermOfPair, S, <<<<coeff, powers>>>>))

sum(S, terms) == OneFraction(MapS(TermOfPair, S, terms))

\* a factor is an equation that holds a fraction, returned as it is, or a list
\* of [coeff, powers] pairs, made into a new fraction
FractionOfFactor(S, factor) ==
    IF factor.built THEN [S |-> S, r |-> factor.f]
    ELSE createFraction(MapS(TermOfPair, S, factor.pairs).S,
                        MapS(TermOfPair, S, factor.pairs).r, QInt(1))

product(S, factors) ==
    [S |-> MapS(FractionOfFactor, S, factors).S,
     r |-> <<MapS(FractionOfFactor, S, factors).r>>]

\* the value of a term object, and of a fraction with its terms
Keys(tv) == {tv.var[i][1] : i \in 1..Len(tv.var)}
Exponent(tv, v) == IF HasKey(tv.var, v) THEN Get(tv.var, v) ELSE 0
TermValues(S, ids) == [i \in 1..Len(ids) |-> S.T[ids[i]]]
FractionValue(S, f) == [terms |-> TermValues(S, S.F[f].terms), deno |-> S.F[f].deno]

\* ------------------------------------------------------------------ inputs
Vars == {"x", "y"}
Coeffs == {QInt(0), QInt(3), QInt(-3)}
BindVals == {QInt(0), QInt(2), QInt(-1)}
BoundVals == {QInt(-1), QInt(0), QInt(2), QInt(3)}
Denos == {QInt(1), QInt(2)}

SeqsUpTo(S, n) == UNION {[1..k -> S] : k \in 0..n}

\* the key/value lists a caller can write for term.var
Entries == Vars \X (0..MaxPow)
VarLists ==
    {<<>>} \cup {<<e>> : e \in Entries}
           \cup {p \in Entries \X Entries : p[1][1] # p[2][1]}

LitQ(q, vs) == [coeff |-> q, hasVar |-> TRUE, var |-> vs]
Lit(c, vs) == LitQ(QInt(c), vs)
Const(c) == [coeff |-> QInt(c), hasVar |-> FALSE, var |-> <<>>]

\* term literals: {coeff: c}, {coeff: c, var: {...}} (var: {} included)
TermVals ==
    {[coeff |-> c, hasVar |-> FALSE, var |-> <<>>] : c \in Coeffs}
    \cup {[coeff |-> c, hasVar |-> TRUE, var |-> vs] : c \in Coeffs, vs \in VarLists}

SecondTerms ==
    {Const(3), Lit(-3, <<<<"x", 1>>>>), Lit(3, <<<<"y", MaxPow>>, <<"x", 1>>>>)}

\* the terms fractions are built from
FracTerms ==
    {Const(3), Lit(3, <<<<"x", 1>>>>), Lit(3, <<<<"x", MaxPow>>>>),
     Lit(3, <<<<"y", 1>>>>), Lit(3, <<<<"x", MaxPow>>, <<"y", 1>>>>),
     Lit(-3, <<<<"x", 1>>>>), Lit(0, <<<<"x", 1>>>>), Lit(3, <<<<"x", 0>>>>),
     Lit(3, <<<<"y", 1>>, <<"x", MaxPow>>>>),
     LitQ(Epsilon, <<<<"x", 1>>>>), LitQ(QDiv(Epsilon, QInt(2)), <<<<"x", 1>>>>)}

\* the numerators of the documented examples of simplifyFraction:
\* 5x^2 - 5x^2 + 3, 2x^2 + 3x + 4x^2 + 5 - 2x + 1, 2x^2y + 3x^2y + 4xy^2 + 5xy^2,
\* 3x^2 + 2x + 5, x - x + 0.0000000001x^2
DocNumerators ==
    {<<Lit(5, <<<<"x", 2>>>>), Lit(-5, <<<<"x", 2>>>>), Const(3)>>,
     <<Lit(2, <<<<"x", 2>>>>), Lit(3, <<<<"x", 1>>>>), Lit(4, <<<<"x", 2>>>>),
       Const(5), Lit(-2, <<<<"x", 1>>>>), Const(1)>>,
     <<Lit(2, <<<<"x", 2>>, <<"y", 1>>>>), Lit(3, <<<<"x", 2>>, <<"y", 1>>>>),
       Lit(4, <<<<"x", 1>>, <<"y", 2>>>>), Lit(5, <<<<"x", 1>>, <<"y", 2>>>>)>>,
     <<Lit(3, <<<<"x", 2>>>>), Lit(2, <<<<"x", 1>>>>), Const(5)>>,
     <<Lit(1, <<<<"x", 1>>>>), Lit(-1, <<<<"x", 1>>>>), LitQ(Epsilon, <<<<"x", 2>>>>)>>}

FracVals ==
    {[terms |-> ts, deno |-> d] :
        ts \in SeqsUpTo(FracTerms, MaxLen) \cup DocNumerators, d \in Denos}

\* the factors products are built from: 3x + 3, 3x + 3y, -3x + 3, 3x^2/2,
\* 3x + 3x, (1e-10/4)x + 3
ProdFracs ==
    {[terms |-> <<Lit(3, <<<<"x", 1>>>>), Const(3)>>, deno |-> QInt(1)],
     [terms |-> <<Lit(3, <<<<"x", 1>>>>), Lit(3, <<<<"y", 1>>>>)>>, deno |-> QInt(1)],
     [terms |-> <<Lit(-3, <<<<"x", 1>>>>), Const(3)>>, deno |-> QInt(1)],
     [terms |-> <<Lit(3, <<<<"x", 2>>>>)>>, deno |-> QInt(2)],
     [terms |-> <<Lit(3, <<<<"x", 1>>>>), Lit(3, <<<<"x", 1>>>>)>>, deno |-> QInt(1)],
     [terms |-> <<LitQ(QDiv(Epsilon, QInt(4)), <<<<"x", 1>>>>), Const(3)>>, deno |-> QInt(1)]}

ProdVals == SeqsUpTo(ProdFracs, MaxFracs)

EqnFracs ==
    {[terms |-> <<Lit(3, <<<<"x", 2>>, <<"y", 1>>>>), Const(-3)>>, deno |-> QInt(2)],
     [terms |-> <<Lit(3, <<<<"x", 1>>>>)>>, deno |-> QInt(1)]}

EqnVals == SeqsUpTo(SeqsUpTo(EqnFracs, 2), 2)

Bindings == UNION {[D -> BindVals] : D \in SUBSET Vars}

\* the bounds objects given to integralOverRegion, as their entries
RegionPairs == {<<QInt(0), QInt(2)>>, <<QInt(-1), QInt(2)>>, <<QInt(2), QInt(2)>>}
RegionBounds ==
    {<<>>} \cup {<<<<v, p[1], p[2]>>>> : v \in Vars, p \in RegionPairs}
           \cup {b \in {<<<<v, p[1], p[2]>>, <<w, q[1], q[2]>>>> :
                            v \in Vars, w \in Vars, p \in RegionPairs, q \in RegionPairs} :
                    b[1][1] # b[2][1]}

\* rectangles: bounds objects with one entry for x and one for y, in either order
RectPairs ==
    {<<QInt(0), QInt(3)>>, <<QInt(0), QInt(2)>>, <<QInt(-1), QInt(3)>>, <<QInt(-1), QInt(2)>>}
RectBounds ==
    {b \in {<<<<v, p[1], p[2]>>, <<w, q[1], q[2]>>>> :
                v \in Vars, w \in Vars, p \in RectPairs, q \in RectPairs} :
        b[1][1] # b[2][1]}

\* the arguments of the builders: coefficient lists from the highest degree,
\* [coeff, powers] pairs, and factors (fractions already built, or pair lists)
PolyCoeffs == SeqsUpTo({QInt(0), QInt(1), QInt(-3)}, MaxPow + 1)
CoeffPowers ==
    {<<QInt(3), <<>>>>, <<QInt(3), <<<<"x", 1>>>>>>, <<QInt(-3), <<<<"x", MaxPow>>>>>>,
     <<QInt(7), <<<<"x", 0>>>>>>, <<QInt(3), <<<<"y", 1>>, <<"x", 1>>>>>>,
     <<QInt(0), <<<<"y", 1>>>>>>}
PairLists == SeqsUpTo(CoeffPowers, 2)
Built(fractions) ==
    [i \in 1..Len(fractions) |-> [built |-> TRUE, f |-> fractions[i], pairs |-> <<>>]]
Unbuilt(pairs) == [built |-> FALSE, f |-> 0, pairs |-> pairs]

\* an object literal written by the caller: its terms and the fraction
AllocFraction(S, fv) ==
    LET m == MapS(NewTerm, S, fv.terms)
    IN  NewFraction(m.S, m.r, fv.deno)

AllocProduct(S, pv) == MapS(AllocFraction, S, pv)

AllocEquation(S, ev) == MapS(AllocProduct, S, ev)

\* the antiderivatives a caller may write for f: the terms of
\* integrateFraction(f, v) as they come, in reverse order, with a constant
\* after or before them, and with the first coefficient doubled
Integrated(a, v) == integrateFraction(a.S, a.r, v)
ValueIn(r) == FractionValue(r.S, r.r)
IntegralTerms(fv, v) == ValueIn(Integrated(AllocFraction(EmptyStore, fv), v)).terms

Reversed(ts) == [i \in 1..Len(ts) |-> ts[Len(ts) + 1 - i]]
FirstDoubled(ts) ==
    [i \in 1..Len(ts) |-> IF i = 1 THEN [ts[i] EXCEPT !.coeff = QMul(@, QInt(2))] ELSE ts[i]]

CandidateTerms(ts) ==
    {ts, Reversed(ts), ts \o <<Const(3)>>, <<Const(3)>> \o ts, FirstDoubled(ts)}

Antiderivatives(fv, v) ==
    {[terms |-> ts, deno |-> fv.deno] : ts \in CandidateTerms(IntegralTerms(fv, v))}

\* ----------------------------------------------------------- state machine
NoCall ==
    [op |-> "none", ok |-> TRUE, v |-> "", lo |-> QInt(0), hi |-> QInt(0),
     values |-> [d \in {} |-> QInt(0)], order |-> 0, bounds |-> <<>>,
     rk |-> "none", rt |-> 0, rf |-> <<>>, num |-> QInt(0),
     then |-> "none", ok2 |-> TRUE, rt2 |-> 0, rf2 |-> 0, bool |-> FALSE]

InitTerms ==
    \E t1 \in TermVals, t2 \in SecondTerms :
        LET m == MapS(NewTerm, EmptyStore, <<t1, t2>>)
        IN  /\ store = m.S
            /\ input = [kind |-> "term", terms |-> m.r, eqn |-> <<>>]

InitFraction ==
    \E fv \in FracVals :
        LET m == AllocFraction(EmptyStore, fv)
        IN  /\ store = m.S
            /\ input = [kind |-> "frac", terms |-> <<>>, eqn |-> <<<<m.r>>>>]

InitProduct ==
    \E pv \in ProdVals :
        LET m == AllocProduct(EmptyStore, pv)
        IN  /\ store = m.S
            /\ input = [kind |-> "prod", terms |-> <<>>, eqn |-> <<m.r>>]

InitEquation ==
    \E ev \in EqnVals :
        LET m == AllocEquation(EmptyStore, ev)
        IN  /\ store = m.S
            /\ input = [kind |-> "eqn", terms |-> <<>>, eqn |-> m.r]

\* nothing built yet
InitNothing ==
    /\ store = EmptyStore
    /\ input = [kind |-> "none", terms |-> <<>>, eqn |-> <<>>]

Init ==
    /\ call = NoCall
    /\ (InitTerms \/ InitFraction \/ InitProduct \/ InitEquation \/ InitNothing)

Idle == call.op = "none"
IsKind(k) == Idle /\ input.kind = k
TheTerm == input.terms[1]
TheFraction == input.eqn[1][1]
TheProduct == input.eqn[1]

\* the record of a call: c holds the operation and its arguments
Called(op) == [NoCall EXCEPT !.op = op]

RetTerm(c, r) ==
    /\ store' = r.S
    /\ call' = [c EXCEPT !.rk = "term", !.rt = r.r]
    /\ UNCHANGED input

\* r.ok = FALSE: the call threw, nothing is returned
RetFraction(c, r) ==
    /\ store' = r.S
    /\ call' = [c EXCEPT !.ok = r.ok,
                         !.rk = IF r.ok THEN "frac" ELSE "none",
                         !.rf = IF r.ok THEN <<<<r.r>>>> ELSE <<>>]
    /\ UNCHANGED input

RetNumber(c, e) ==
    /\ call' = [c EXCEPT !.ok = e.ok,
                         !.rk = IF e.ok THEN "num" ELSE "none",
                         !.num = e.val]
    /\ UNCHANGED <<store, input>>

\* ---- term operations
IntegrateTerm ==
    /\ IsKind("term")
    /\ \E v \in Vars :
        RetTerm([Called("integrateTerm") EXCEPT !.v = v],
                integrateTerm(store, TheTerm, v))

DifferentiateTerm ==
    /\ IsKind("term")
    /\ \E v \in Vars :
        RetTerm([Called("differentiateTerm") EXCEPT !.v = v],
                differentiateTerm(store, TheTerm, v))

DefiniteIntegrateTerm ==
    /\ IsKind("term")
    /\ \E v \in Vars, lo \in BoundVals, hi \in BoundVals :
        RetTerm([Called("definiteIntegrateTerm") EXCEPT !.v = v, !.lo = lo, !.hi = hi],
                definiteIntegrateTerm(store, TheTerm, lo, hi, v))

MultiplyTerms ==
    /\ IsKind("term")
    /\ RetTerm(Called("multiplyTerms"),
               multiplyTerms(store, input.terms[1], input.terms[2]))

EvaluateTerm ==
    /\ IsKind("term")
    /\ \E values \in Bindings :
        RetNumber([Called("evaluateTerm") EXCEPT !.values = values],
                  evaluateTerm(store, TheTerm, values))

\* ---- fraction operations
IntegrateFraction ==
    /\ IsKind("frac")
    /\ \E v \in Vars :
        RetFraction([Called("integrateFraction") EXCEPT !.v = v],
                    Returned(integrateFraction(store, TheFraction, v)))

DefiniteIntegrateFraction ==
    /\ IsKind("frac")
    /\ \E v \in Vars, lo \in BoundVals, hi \in BoundVals :
        RetFraction([Called("definiteIntegrateFraction")
                        EXCEPT !.v = v, !.lo = lo, !.hi = hi],
                    Returned(definiteIntegrateFraction(store, TheFraction, lo, hi, v)))

DifferentiateFraction ==
    /\ IsKind("frac")
    /\ \E v \in Vars :
        RetFraction([Called("differentiateFraction") EXCEPT !.v = v],
                    differentiateFraction(store, TheFraction, v))

SimplifyFraction ==
    /\ IsKind("frac")
    /\ RetFraction(Called("simplifyFraction"),
                   Returned(simplifyFraction(store, TheFraction)))

IntegralOverRegion ==
    /\ IsKind("frac")
    /\ \E bounds \in RegionBounds :
        RetFraction([Called("integralOverRegion") EXCEPT !.bounds = bounds],
                    Returned(integralOverRegion(store, TheFraction, bounds)))

PartialDerivative ==
    /\ IsKind("frac")
    /\ \E v \in Vars, order \in 0..(MaxPow + 1) :
        RetFraction([Called("partialDerivative") EXCEPT !.v = v, !.order = order],
                    partialDerivative(store, TheFraction, v, order))

EvaluateFraction ==
    /\ IsKind("frac")
    /\ \E values \in Bindings :
        RetNumber([Called("evaluateFraction") EXCEPT !.values = values],
                  evaluateFraction(store, TheFraction, values))

\* ---- product and equation operations
ExpandFractions ==
    /\ IsKind("prod")
    /\ Len(TheProduct) >= 2
    /\ RetFraction(Called("expandFractions"),
                   expandFractions(store, TheProduct[1], TheProduct[2]))

ExpandProduct ==
    /\ IsKind("prod")
    /\ RetFraction(Called("expandProduct"), expandProduct(store, TheProduct))

SimplifyProduct ==
    /\ IsKind("prod")
    /\ LET r == simplifyProduct(store, TheProduct)
       IN  /\ store' = r.S
           /\ call' = [Called("simplifyProduct") EXCEPT !.rk = "prod", !.rf = <<r.r>>]
           /\ UNCHANGED input

EvaluateProduct ==
    /\ IsKind("prod")
    /\ \E values \in Bindings :
        RetNumber([Called("evaluateProduct") EXCEPT !.values = values],
                  evaluateProduct(store, TheProduct, values))

SimplifyEquation ==
    /\ IsKind("eqn")
    /\ LET r == simplifyEquation(store, input.eqn)
       IN  /\ store' = r.S
           /\ call' = [Called("simplifyEquation") EXCEPT !.rk = "eqn", !.rf = r.r]
           /\ UNCHANGED input

EvaluateEquation ==
    /\ Idle
    /\ input.kind \in {"frac", "prod", "eqn"}
    /\ \E values \in Bindings :
        RetNumber([Called("evaluateEquation") EXCEPT !.values = values],
                  evaluateEquation(store, input.eqn, values))

\* ---- a second call, on the result of the first
\* the first call returned and nothing was done with its result yet
Returns(op) == call.op = op /\ call.ok /\ call.then = "none"

\* simplifyFraction(simplifyFraction(f))
SimplifyAgain ==
    /\ Returns("simplifyFraction")
    /\ LET r == simplifyFraction(store, call.rf[1][1])
       IN  /\ store' = r.S
           /\ call' = [call EXCEPT !.then = "simplifyFraction", !.rf2 = r.r]
           /\ UNCHANGED input

\* evaluateFraction(expandProduct(P), values)
EvaluateExpanded ==
    /\ Returns("expandProduct")
    /\ \E values \in Bindings :
        LET e == evaluateFraction(store, call.rf[1][1], values)
        IN  call' = [call EXCEPT !.then = "evaluateFraction", !.values = values,
                                 !.ok2 = e.ok, !.num = e.val]
    /\ UNCHANGED <<store, input>>

\* differentiateTerm(integrateTerm(t, v), v)
DifferentiateIntegrated ==
    /\ Returns("integrateTerm")
    /\ LET r == differentiateTerm(store, call.rt, call.v)
       IN  /\ store' = r.S
           /\ call' = [call EXCEPT !.then = "differentiateTerm", !.rt2 = r.r]
           /\ UNCHANGED input

\* verifyIntegration(f, integrateFraction(f, v), v)
VerifyIntegrated ==
    /\ Returns("integrateFraction")
    /\ LET r == verifyIntegration(store, TheFraction, call.rf[1][1], call.v)
       IN  /\ store' = r.S
           /\ call' = [call EXCEPT !.then = "verifyIntegration", !.ok2 = r.ok,
                                    !.bool = r.r]
           /\ UNCHANGED input

\* evaluateFraction(definiteIntegrateFraction(f, a, b, v), values), values
\* binding nothing or the other variable
EvaluateIntegral ==
    /\ Returns("definiteIntegrateFraction")
    /\ \E values \in {b \in Bindings : \A w \in DOMAIN b : w # call.v /\ b[w] = QInt(2)} :
        LET e == evaluateFraction(store, call.rf[1][1], values)
        IN  call' = [call EXCEPT !.then = "evaluateFraction", !.values = values,
                                 !.ok2 = e.ok, !.num = e.val]
    /\ UNCHANGED <<store, input>>

\* ---- integrals over a rectangle, as numbers (the intermediate fractions are
\* not kept by the caller)
DoubleIntegral ==
    /\ IsKind("frac")
    /\ \E bounds \in RectBounds :
        RetNumber([Called("doubleIntegral") EXCEPT !.bounds = bounds],
                  doubleIntegral(store, TheFraction, bounds))

IntegralValue ==
    /\ IsKind("frac")
    /\ \E bounds \in RectBounds :
        RetNumber([Called("integralValue") EXCEPT !.bounds = bounds],
                  integralValue(store, TheFraction, bounds))

\* ---- builders
RetEquation(c, r) ==
    /\ store' = r.S
    /\ call' = [c EXCEPT !.rk = "eqn", !.rf = r.r]
    /\ UNCHANGED input

Polynomial ==
    /\ IsKind("none")
    /\ \E coeffs \in PolyCoeffs, v \in Vars :
        RetEquation([Called("polynomial") EXCEPT !.v = v], polynomial(store, coeffs, v))

Monomial ==
    /\ IsKind("none")
    /\ \E p \in CoeffPowers :
        RetEquation(Called("monomial"), monomial(store, p[1], p[2]))

Sum ==
    /\ IsKind("none")
    /\ \E terms \in PairLists :
        RetEquation(Called("sum"), sum(store, terms))

\* product(...factors): the fractions of the input, each inside its equation,
\* followed by at most one list of pairs
Product ==
    /\ IsKind("prod")
    /\ \E lists \in SeqsUpTo(SeqsUpTo(CoeffPowers, 1), 1) :
        RetEquation(Called("product"),
                    product(store, Built(TheProduct)
                                   \o [i \in 1..Len(lists) |-> Unbuilt(lists[i])]))

\* verifyIntegration(f, g, v) on an antiderivative g the caller wrote; rf2 is g
VerifyIntegration ==
    /\ IsKind("frac")
    /\ \E v \in Vars :
        \E g \in Antiderivatives(FractionValue(store, TheFraction), v) :
            LET a == AllocFraction(store, g)
                r == verifyIntegration(a.S, TheFraction, a.r, v)
            IN  /\ store' = r.S
                /\ call' = [Called("verifyIntegration")
                               EXCEPT !.v = v, !.ok = r.ok, !.bool = r.r, !.rf2 = a.r]
                /\ UNCHANGED input

\* ---- the product rule
ProductRuleDifferentiate ==
    /\ IsKind("prod")
    /\ \E v \in Vars :
        RetFraction([Called("productRuleDifferentiate") EXCEPT !.v = v],
                    productRuleDifferentiate(store, TheProduct, v))

\* evaluateFraction(productRuleDifferentiate(P, v), values)
EvaluateProductRule ==
    /\ Returns("productRuleDifferentiate")
    /\ \E values \in Bindings :
        LET e == evaluateFraction(store, call.rf[1][1], values)
        IN  call' = [call EXCEPT !.then = "evaluateFraction", !.values = values,
                                 !.ok2 = e.ok, !.num = e.val]
    /\ UNCHANGED <<store, input>>

\* ---- Taylor series; call.values is the binding {[variable]: center}
TaylorSeries ==
    /\ IsKind("frac")
    /\ \E v \in Vars, center \in BindVals, order \in 0..(MaxPow + 1) :
        RetFraction([Called("taylorSeries") EXCEPT !.v = v, !.order = order,
                                                   !.values = [w \in {v} |-> center]],
                    taylorSeries(store, TheFraction, v, center, order))

\* ---- differentiateFraction applied again to its own result, with respect
\* to the same variable; call.order counts the further applications
LastDerivative == IF call.then = "none" THEN call.rf[1][1] ELSE call.rf2

DifferentiateAgain ==
    /\ call.op = "differentiateFraction"
    /\ call.ok /\ call.ok2
    /\ call.order < MaxPow + 2
    /\ LET r == differentiateFraction(store, LastDerivative, call.v)
       IN  /\ store' = r.S
           /\ call' = [call EXCEPT !.then = "differentiateFraction", !.ok2 = r.ok,
                                    !.rf2 = r.r, !.order = @ + 1]
           /\ UNCHANGED input

Next ==
    \/ IntegrateTerm
    \/ DifferentiateTerm
    \/ DefiniteIntegrateTerm
    \/ MultiplyTerms
    \/ EvaluateTerm
    \/ IntegrateFraction
    \/ DefiniteIntegrateFraction
    \/ DifferentiateFraction
    \/ SimplifyFraction
    \/ IntegralOverRegion
    \/ PartialDerivative
    \/ EvaluateFraction
    \/ ExpandFractions
    \/ ExpandProduct
    \/ SimplifyProduct
    \/ EvaluateProduct
    \/ SimplifyEquation
    \/ EvaluateEquation
    \/ SimplifyAgain
    \/ EvaluateExpanded
    \/ DifferentiateIntegrated
    \/ VerifyIntegrated
    \/ EvaluateIntegral
    \/ Polynomial
    \/ Monomial
    \/ Sum
    \/ Product
    \/ VerifyIntegration
    \/ ProductRuleDifferentiate
    \/ EvaluateProductRule
    \/ TaylorSeries
    \/ DifferentiateAgain

Spec == Init /\ [][Next]_vars

\* ---- the same library on binary64 numbers
\* the coefficients and the degrees in x of the binary64 inputs
FloatCoeffs == {1, 3, 15}
MaxDeg == 10

\* c * x^n * y^k as the caller writes it: no key with exponent 0
FloatTerm(c, n, k) ==
    [coeff |-> Double(QInt(c)), hasVar |-> n + k > 0,
     var |-> (IF n > 0 THEN <<<<"x", n>>>> ELSE <<>>)
             \o (IF k > 0 THEN <<<<"y", k>>>> ELSE <<>>)]

FloatTermVals == {FloatTerm(c, n, k) : c \in FloatCoeffs, n \in 0..MaxDeg, k \in 0..1}

\* one term, or two of x^2, 15x^10, 3, 3xy
FloatFracVals ==
    {[terms |-> ts, deno |-> QInt(1)] :
        ts \in {<<t>> : t \in FloatTermVals}
               \cup SeqsUpTo({FloatTerm(1, 2, 0), FloatTerm(15, MaxDeg, 0),
                              FloatTerm(3, 0, 0), FloatTerm(3, 1, 1)}, 2)}

\* (c/10) * x^n * y^k: the literals 0.1, 0.2, -0.3 are the quotients c/10
TenthTerm(c, n, k) ==
    [FloatTerm(1, n, k) EXCEPT !.coeff = Double(<<[n |-> c, d |-> 10]>>)]

\* the fractions given to the simplifiers: 0.1x + 0.2x, (0.1x + 0.2x)/2,
\* 0.1x + 0.2x - 0.3x, 1e-10 x^2 + 3, 0.1x + 3 + 0.2x, 0.1x + 0.1y
SimplifyFracVals ==
    {[terms |-> <<TenthTerm(1, 1, 0), TenthTerm(2, 1, 0)>>, deno |-> QInt(1)],
     [terms |-> <<TenthTerm(1, 1, 0), TenthTerm(2, 1, 0)>>, deno |-> QInt(2)],
     [terms |-> <<TenthTerm(1, 1, 0), TenthTerm(2, 1, 0), TenthTerm(-3, 1, 0)>>,
      deno |-> QInt(1)],
     [terms |-> <<[FloatTerm(1, 2, 0) EXCEPT !.coeff = Epsilon64], FloatTerm(3, 0, 0)>>,
      deno |-> QInt(1)],
     [terms |-> <<TenthTerm(1, 1, 0), FloatTerm(3, 0, 0), TenthTerm(2, 1, 0)>>,
      deno |-> QInt(1)],
     [terms |-> <<TenthTerm(1, 1, 0), TenthTerm(1, 0, 1)>>, deno |-> QInt(1)]}

\* the products and equations given to the simplifiers
SimplifyProdVals ==
    SeqsUpTo({fv \in SimplifyFracVals : Len(fv.terms) = 2 /\ fv.terms[2].var # <<>>}, 2)
SimplifyEqnVals == SeqsUpTo(SimplifyProdVals, 2)

\* the bindings of evaluateFraction on binary64 numbers
FloatBindings ==
    {[w \in {"x", "y"} |-> IF w = "x" THEN QInt(5) ELSE QInt(2)],
     [w \in {"x", "y"} |-> QInt(3)],
     [w \in {"x"} |-> QInt(5)]}

InitFloatTerm ==
    \E t \in FloatTermVals :
        LET m == NewTerm(EmptyStore, t)
        IN  /\ store = m.S
            /\ input = [kind |-> "term", terms |-> <<m.r>>, eqn |-> <<>>]

InitFloatFraction ==
    \E fv \in FloatFracVals \cup SimplifyFracVals :
        LET m == AllocFraction(EmptyStore, fv)
        IN  /\ store = m.S
            /\ input = [kind |-> "frac", terms |-> <<>>, eqn |-> <<<<m.r>>>>]

InitFloatProduct ==
    \E pv \in SimplifyProdVals :
        LET m == AllocProduct(EmptyStore, pv)
        IN  /\ store = m.S
            /\ input = [kind |-> "prod", terms |-> <<>>, eqn |-> <<m.r>>]

InitFloatEquation ==
    \E ev \in SimplifyEqnVals :
        LET m == AllocEquation(EmptyStore, ev)
        IN  /\ store = m.S
            /\ input = [kind |-> "eqn", terms |-> <<>>, eqn |-> m.r]

InitFloat ==
    /\ call = NoCall
    /\ (InitFloatTerm \/ InitFloatFraction \/ InitFloatProduct \/ InitFloatEquation)

\* evaluateFraction(simplifyFraction(f), values)
EvaluateSimplified ==
    /\ Returns("simplifyFraction")
    /\ \E values \in FloatBindings :
        LET e == evaluateFraction(store, call.rf[1][1], values)
        IN  call' = [call EXCEPT !.then = "evaluateFraction", !.values = values,
                                 !.ok2 = e.ok, !.num = e.val]
    /\ UNCHANGED <<store, input>>

NextFloat ==
    \/ IntegrateTerm
    \/ DifferentiateIntegrated
    \/ IntegrateFraction
    \/ VerifyIntegrated
    \/ DefiniteIntegrateFraction
    \/ EvaluateIntegral
    \/ DoubleIntegral
    \/ IntegralValue
    \/ SimplifyFraction
    \/ EvaluateSimplified
    \/ SimplifyProduct
    \/ SimplifyEquation

FloatSpec == InitFloat /\ [][NextFloat]_vars

\* ---- sequences of calls: every call takes the fraction the previous one
\* returned; the caller keeps that fraction only.  A sequence has at most
\* MaxSteps calls and goes on while the coefficients are small.
MaxSteps == 3
MaxCoeff == 100

\* well-formed fractions over 1: x + 1, x^2 + y, xy, x^2, 1, yx - x, ...
ChainTerms ==
    {Const(1), Lit(1, <<<<"x", 1>>>>), Lit(1, <<<<"x", MaxPow>>>>), Lit(1, <<<<"y", 1>>>>),
     Lit(-1, <<<<"y", 1>>, <<"x", 1>>>>)}
ChainFracVals ==
    {[terms |-> ts, deno |-> QInt(1)] : ts \in SeqsUpTo(ChainTerms, 2) \ {<<>>}}

InitChain ==
    /\ call = NoCall
    /\ \E fv \in ChainFracVals :
        /\ store = AllocFraction(EmptyStore, fv).S
        /\ input = [kind |-> "frac", terms |-> <<>>,
                    eqn |-> <<<<AllocFraction(EmptyStore, fv).r>>>>]

\* the highest exponent in the fraction
MaxExponent(S, f) ==
    LET ps == {0} \cup UNION {{S.T[S.F[f].terms[i]].var[j][2] :
                                  j \in 1..Len(S.T[S.F[f].terms[i]].var)} :
                              i \in 1..Len(S.F[f].terms)}
    IN  CHOOSE p \in ps : \A q \in ps : q <= p

\* every coefficient is a fraction of integers of at most MaxCoeff
SmallCoeffs(S, f) ==
    \A i \in 1..Len(S.F[f].terms) : \A j \in 1..Len(S.T[S.F[f].terms[i]].coeff) :
        /\ Abs(S.T[S.F[f].terms[i]].coeff[j].n) <= MaxCoeff
        /\ S.T[S.F[f].terms[i]].coeff[j].d <= MaxCoeff

\* the returned fraction alone, as the next input
Kept(r) ==
    AllocFraction(EmptyStore,
                  [terms |-> [i \in 1..Len(r.S.F[r.r].terms) |-> r.S.T[r.S.F[r.r].terms[i]]],
                   deno |-> r.S.F[r.r].deno])

ChainStep(op, r) ==
    /\ call.order < MaxSteps
    /\ SmallCoeffs(store, TheFraction)
    /\ r.ok
    /\ store' = Kept(r).S
    /\ input' = [input EXCEPT !.eqn = <<<<Kept(r).r>>>>]
    /\ call' = [NoCall EXCEPT !.op = op, !.order = call.order + 1]

ChainIntegrate ==
    \E v \in Vars :
        ChainStep("integrateFraction", Returned(integrateFraction(store, TheFraction, v)))

ChainDefiniteIntegrate ==
    \E v \in Vars, p \in {<<QInt(0), QInt(2)>>, <<QInt(-1), QInt(2)>>} :
        ChainStep("definiteIntegrateFraction",
                  Returned(definiteIntegrateFraction(store, TheFraction, p[1], p[2], v)))

ChainDifferentiate ==
    \E v \in Vars :
        ChainStep("differentiateFraction", differentiateFraction(store, TheFraction, v))

ChainSimplify ==
    ChainStep("simplifyFraction", Returned(simplifyFraction(store, TheFraction)))

\* products are taken while the exponents are at most MaxPow
ChainExpandFractions ==
    /\ MaxExponent(store, TheFraction) <= MaxPow
    /\ ChainStep("expandFractions", expandFractions(store, TheFraction, TheFraction))

ChainExpandProduct ==
    /\ MaxExponent(store, TheFraction) <= MaxPow
    /\ \E n \in 0..2 :
        ChainStep("expandProduct", expandProduct(store, [i \in 1..n |-> TheFraction]))

ChainNext ==
    \/ ChainIntegrate
    \/ ChainDefiniteIntegrate
    \/ ChainDifferentiate
    \/ ChainSimplify
    \/ ChainExpandFractions
    \/ ChainExpandProduct

ChainSpec == InitChain /\ [][ChainNext]_vars

\* ============================================================== properties

Transformations ==
    {"integrateTerm", "integrateFraction", "definiteIntegrateTerm",
     "definiteIntegrateFraction", "differentiateTerm", "differentiateFraction",
     "simplifyFraction", "simplifyProduct", "simplifyEquation", "multiplyTerms",
     "expandFractions", "expandProduct", "integralOverRegion", "partialDerivative"}

\* the objects of the argument tree, and of the returned tree
FractionsOf(eqn) == {eqn[i][j] : <<i, j>> \in {p \in (1..Len(eqn)) \X (1..MaxFracs + 1) :
                                                p[2] <= Len(eqn[p[1]])}}
TermsOfFractions(fs) == UNION {{store.F[f].terms[i] : i \in 1..Len(store.F[f].terms)} : f \in fs}
InputFractions == FractionsOf(input.eqn)
InputTerms == {input.terms[i] : i \in 1..Len(input.terms)} \cup TermsOfFractions(InputFractions)
ResultFractions == FractionsOf(call.rf)
ResultTerms == (IF call.rk = "term" THEN {call.rt} ELSE {}) \cup TermsOfFractions(ResultFractions)

\* ---- C1
\* C1: no core transformation mutates its input: over any call of one of the
\* fourteen transformations, returning or failing, every object that existed
\* before the call (the argument tree: coefficients, exponents, term lists,
\* denominators) is the same after it.
C1_Frame ==
    /\ Len(store'.T) >= Len(store.T)
    /\ Len(store'.F) >= Len(store.F)
    /\ \A t \in 1..Len(store.T) : store'.T[t] = store.T[t]
    /\ \A f \in 1..Len(store.F) : store'.F[f] = store.F[f]

C1_NoInputMutation == [][call'.op \in Transformations => C1_Frame]_vars

\* a simplification that merged two like terms (coeff += on the clone)
C1_Witness ==
    /\ call.op = "simplifyFraction"
    /\ Len(store.F[TheFraction].terms) = 2
    /\ Len(store.F[call.rf[1][1]].terms) = 1
    /\ store.T[store.F[call.rf[1][1]].terms[1]].coeff # store.T[store.F[TheFraction].terms[1]].coeff

\* ---- C2
\* C2: every transformation returns a new object graph: no fraction and no
\* term of the result is an object of the input (expandProduct on products of
\* length 0, 1 and more included).
C2_ReturnsFreshObjects ==
    (call.op \in Transformations /\ call.ok) =>
        /\ ResultFractions \cap InputFractions = {}
        /\ ResultTerms \cap InputTerms = {}

\* ---- C3
VarsOfTerms(ids) == UNION {Keys(store.T[t]) : t \in ids}

\* C3: evaluation fails exactly when some variable occurring in its input has
\* no binding, whatever the coefficients are, and then returns no value.
C3_FailFast ==
    /\ call.op = "evaluateTerm" =>
          (call.ok <=> Keys(store.T[TheTerm]) \subseteq DOMAIN call.values)
    /\ call.op = "evaluateFraction" =>
          (call.ok <=> VarsOfTerms(TermsOfFractions({TheFraction})) \subseteq DOMAIN call.values)
    /\ call.op = "evaluateProduct" =>
          (call.ok <=> VarsOfTerms(TermsOfFractions(InputFractions)) \subseteq DOMAIN call.values)
    /\ call.op = "evaluateEquation" =>
          (call.ok <=> VarsOfTerms(TermsOfFractions(InputFractions)) \subseteq DOMAIN call.values)
    /\ (call.op \in {"evaluateTerm", "evaluateFraction", "evaluateProduct", "evaluateEquation"}
        /\ ~call.ok) => call.rk = "none"

\* a term with coefficient 0 and an unbound variable fails as well
C3_Witness ==
    /\ call.op = "evaluateTerm"
    /\ ~call.ok
    /\ store.T[TheTerm].coeff = QInt(0)
    /\ DOMAIN call.values = {"x"}
    /\ Keys(store.T[TheTerm]) = {"x", "y"}

\* ---- C4
\* the value of an expression, as a sum of products of quotients of sums
RECURSIVE SumSeq(_)
SumSeq(qs) == IF qs = <<>> THEN QInt(0) ELSE QAdd(Head(qs), SumSeq(Tail(qs)))
RECURSIVE ProdSeq(_)
ProdSeq(qs) == IF qs = <<>> THEN QInt(1) ELSE QMul(Head(qs), ProdSeq(Tail(qs)))

MathTerm(tv, b) ==
    QMul(tv.coeff, ProdSeq([i \in 1..Len(tv.var) |-> MathPow(b[tv.var[i][1]], tv.var[i][2])]))
MathFraction(f, b) ==
    QDiv(SumSeq([i \in 1..Len(store.F[f].terms) |-> MathTerm(store.T[store.F[f].terms[i]], b)]),
         store.F[f].deno)
MathProduct(fractions, b) ==
    ProdSeq([j \in 1..Len(fractions) |-> MathFraction(fractions[j], b)])
MathEquation(equation, b) == SumSeq([i \in 1..Len(equation) |-> MathProduct(equation[i], b)])

\* C4: evaluateEquation(E, b) is the sum over the products of E of the product
\* over their fractions of (sum of coefficient * prod b[v]^power) / denominator;
\* an empty product evaluates to 1, an empty equation to 0, and a term without
\* variables to its coefficient under any bindings.
C4_EvaluateEquation ==
    /\ (call.op = "evaluateEquation" /\ call.ok) =>
            call.num = MathEquation(input.eqn, call.values)
    /\ (call.op = "evaluateEquation" /\ input.eqn = <<>>) =>
            (call.ok /\ call.num = QInt(0))
    /\ (call.op = "evaluateProduct" /\ TheProduct = <<>>) =>
            (call.ok /\ call.num = QInt(1))
    /\ (call.op = "evaluateTerm" /\ Keys(store.T[TheTerm]) = {}) =>
            (call.ok /\ call.num = store.T[TheTerm].coeff)

\* two products, the first of two fractions one of which has denominator 2
C4_Witness ==
    /\ call.op = "evaluateEquation"
    /\ call.ok
    /\ Len(input.eqn) = 2
    /\ Len(input.eqn[1]) = 2
    /\ store.F[input.eqn[1][1]].deno = QInt(2)
    /\ Len(input.eqn[2]) >= 1
    /\ call.num[1].d # 1
    /\ DOMAIN call.values = {"x", "y"}

\* ---- C5
\* r is the derivative of the term t with respect to v by the power rule
PowerRule(t, r, v) ==
    IF ~(t.hasVar /\ HasKey(t.var, v))
    THEN r = [coeff |-> QInt(0), hasVar |-> FALSE, var |-> <<>>]
    ELSE LET p == Get(t.var, v)
         IN  /\ r.coeff = QMul(t.coeff, QInt(p))
             /\ IF p - 1 = 0 THEN v \notin Keys(r)
                ELSE v \in Keys(r) /\ Get(r.var, v) = p - 1
             /\ \A w \in Keys(t) \ {v} : w \in Keys(r) /\ Get(r.var, w) = Get(t.var, w)
             /\ Keys(r) \subseteq Keys(t)

\* C5: differentiateTerm(t, v) is the zero term when v is absent from t;
\* otherwise its coefficient is c*p, v has exponent p-1 (the key removed when
\* p-1 is 0) and every other variable keeps its exponent.
C5_PowerRule ==
    [][call'.op = "differentiateTerm" =>
          PowerRule(store.T[TheTerm], store'.T[call'.rt], call'.v)]_vars

\* d/dx of c*x*y^k: the key x is removed, y is kept
C5_Witness ==
    /\ call.op = "differentiateTerm"
    /\ call.v = "x"
    /\ Keys(store.T[TheTerm]) = {"x", "y"}
    /\ Get(store.T[TheTerm].var, "x") = 1
    /\ Keys(store.T[call.rt]) = {"y"}
    /\ store.T[call.rt].coeff # QInt(0)

\* ---- C6
\* the input terms whose derivative has a non-zero coefficient
KeptByDerivative(tvs, v) ==
    LET keep(t) == t.hasVar /\ HasKey(t.var, v)
                   /\ QMul(t.coeff, QInt(Exponent(t, v))) # QInt(0)
    IN  SelectSeq(tvs, keep)

DerivativeOf(fv, v) ==
    LET a == AllocFraction(EmptyStore, fv)
        d == differentiateFraction(a.S, a.r, v)
    IN  FractionValue(d.S, d.r)

\* x^3*y^2 + 2xy - y
C6_Example ==
    [terms |-> <<Lit(1, <<<<"x", 3>>, <<"y", 2>>>>), Lit(2, <<<<"x", 1>>, <<"y", 1>>>>),
                 Lit(-1, <<<<"y", 1>>>>)>>,
     deno |-> QInt(1)]

C6_ExampleHolds ==
    /\ DerivativeOf(C6_Example, "x") =
          [terms |-> <<Lit(3, <<<<"x", 2>>, <<"y", 2>>>>), Lit(2, <<<<"y", 1>>>>)>>,
           deno |-> QInt(1)]
    /\ DerivativeOf(C6_Example, "y") =
          [terms |-> <<Lit(2, <<<<"x", 3>>, <<"y", 1>>>>), Lit(2, <<<<"x", 1>>>>), Const(-1)>>,
           deno |-> QInt(1)]

C6_Derivative(f, r, v) ==
    LET kept == KeptByDerivative(f.terms, v)
    IN  /\ r.deno = QInt(1)
        /\ Len(r.terms) = Len(kept)
        /\ \A i \in 1..Len(kept) : PowerRule(kept[i], r.terms[i], v)
        /\ \A i \in 1..Len(r.terms) : r.terms[i].coeff # QInt(0)

\* C6: for a fraction with denominator 1, differentiateFraction returns
\* denominator 1 and, in input order, the derivatives of exactly the terms
\* whose derivative has a non-zero coefficient (the documented example too).
C6_DifferentiateFraction ==
    [][(call'.op = "differentiateFraction" /\ store.F[TheFraction].deno = QInt(1)) =>
          /\ call'.ok
          /\ C6_Derivative(FractionValue(store, TheFraction),
                           FractionValue(store', call'.rf[1][1]), call'.v)
          /\ C6_ExampleHolds]_vars

\* one of two terms is dropped
C6_Witness ==
    /\ call.op = "differentiateFraction"
    /\ call.ok
    /\ call.v = "x"
    /\ Len(store.F[TheFraction].terms) = 2
    /\ Keys(store.T[store.F[TheFraction].terms[1]]) = {"y"}
    /\ Len(store.F[call.rf[1][1]].terms) = 1

\* ---- C7
AllUnit(S, fractions) == \A i \in 1..Len(fractions) : S.F[fractions[i]].deno = QInt(1)

\* C7: differentiateFraction fails exactly when the denominator is not 1,
\* expandFractions exactly when one of its two arguments has a denominator
\* other than 1, expandProduct on two or more fractions exactly when some
\* fraction has; a failed call returns nothing.
C7_UnsupportedDenominator ==
    [][/\ call'.op = "differentiateFraction" =>
            (call'.ok <=> store.F[TheFraction].deno = QInt(1))
       /\ call'.op = "expandFractions" =>
            (call'.ok <=> AllUnit(store, SubSeq(TheProduct, 1, 2)))
       /\ (call'.op = "expandProduct" /\ Len(TheProduct) >= 2) =>
            (call'.ok <=> AllUnit(store, TheProduct))
       /\ (call'.op \in {"differentiateFraction", "expandFractions", "expandProduct"}
           /\ ~call'.ok) => (call'.rk = "none" /\ call'.rf = <<>>)]_vars

\* the third fraction is the one with a denominator other than 1
C7_Witness ==
    /\ call.op = "expandProduct"
    /\ ~call.ok
    /\ Len(TheProduct) = 3
    /\ AllUnit(store, SubSeq(TheProduct, 1, 2))

\* ---- C9
\* r is the definite integral of the term t over [lower, upper] in v
DefiniteRule(t, r, lower, upper, v) ==
    LET p == Exponent(t, v)
    IN  /\ r.coeff = QMul(QDiv(t.coeff, QInt(p + 1)),
                          QSub(MathPow(upper, p + 1), MathPow(lower, p + 1)))
        /\ v \notin Keys(r)
        /\ \A w \in Keys(t) \ {v} : w \in Keys(r) /\ Get(r.var, w) = Get(t.var, w)

\* C9: definiteIntegrateTerm(t, lower, upper, v) has the coefficient
\* c/(p+1) * (upper^(p+1) - lower^(p+1)), p the exponent of v in t (0 when
\* absent); the result does not contain v, the other variables keep their
\* exponents.
C9_DefiniteIntegrateTerm ==
    [][call'.op = "definiteIntegrateTerm" =>
          DefiniteRule(store.T[TheTerm], store'.T[call'.rt],
                       call'.lo, call'.hi, call'.v)]_vars

C9_Witness ==
    /\ call.op = "definiteIntegrateTerm"
    /\ call.v = "x"
    /\ call.lo = QInt(-1)
    /\ call.hi = QInt(2)
    /\ store.T[TheTerm].var = <<<<"y", 1>>, <<"x", 2>>>>
    /\ store.T[call.rt].var = <<<<"y", 1>>>>
    /\ store.T[call.rt].coeff = QInt(9)

\* ---- C8
\* C8: definiteIntegrateFraction returns for every denominator: the result has
\* the input's denominator and, term by term in order, the definite integrals
\* of the numerator; the warning is emitted exactly when the denominator is
\* not 1.
C8_DefiniteIntegrateFraction ==
    [][(Idle /\ call'.op = "definiteIntegrateFraction") =>
          LET f == FractionValue(store, TheFraction)
              r == FractionValue(store', call'.rf[1][1])
          IN  /\ call'.ok
              /\ r.deno = f.deno
              /\ Len(r.terms) = Len(f.terms)
              /\ \A i \in 1..Len(f.terms) :
                    DefiniteRule(f.terms[i], r.terms[i], call'.lo, call'.hi, call'.v)
              /\ store'.warn = store.warn + (IF f.deno # QInt(1) THEN 1 ELSE 0)]_vars

C8_Witness ==
    /\ call.op = "definiteIntegrateFraction"
    /\ call.ok
    /\ store.F[TheFraction].deno = QInt(2)
    /\ Len(store.F[TheFraction].terms) = 2
    /\ store.F[call.rf[1][1]].deno = QInt(2)
    /\ Len(store.F[call.rf[1][1]].terms) = 2
    /\ store.warn = 1

\* ---- C10
\* r is the indefinite integral of the term t in v
IntegralRule(t, r, v) ==
    LET p == Exponent(t, v)
    IN  /\ r.coeff = QDiv(t.coeff, QInt(p + 1))
        /\ v \in Keys(r)
        /\ Get(r.var, v) = p + 1
        /\ \A w \in Keys(t) \ {v} : w \in Keys(r) /\ Get(r.var, w) = Get(t.var, w)
        /\ Keys(r) = Keys(t) \cup {v}

\* C10: integrateTerm(t, v) has the coefficient c/(p+1) and the exponent p+1
\* for v (p = 0 and the key inserted when v is absent), the other exponents
\* unchanged; integrateFraction integrates every numerator term in order and
\* keeps the denominator, without failure or warning for any denominator.
C10_Integrate ==
    [][/\ call'.op = "integrateTerm" =>
            IntegralRule(store.T[TheTerm], store'.T[call'.rt], call'.v)
       /\ call'.op = "integrateFraction" =>
            LET f == FractionValue(store, TheFraction)
                r == FractionValue(store', call'.rf[1][1])
            IN  /\ call'.ok
                /\ r.deno = f.deno
                /\ Len(r.terms) = Len(f.terms)
                /\ \A i \in 1..Len(f.terms) :
                      IntegralRule(f.terms[i], r.terms[i], call'.v)
                /\ store'.warn = store.warn]_vars

\* a constant and a power of x over the denominator 2, integrated in x
C10_Witness ==
    /\ call.op = "integrateFraction"
    /\ call.ok
    /\ call.v = "x"
    /\ store.F[TheFraction].deno = QInt(2)
    /\ Len(store.F[TheFraction].terms) = 2
    /\ ~store.T[store.F[TheFraction].terms[1]].hasVar
    /\ store.T[store.F[TheFraction].terms[2]].var = <<<<"x", 2>>>>
    /\ store.T[store.F[call.rf[1][1]].terms[1]].var = <<<<"x", 1>>>>
    /\ store.T[store.F[call.rf[1][1]].terms[2]].coeff = QInt(1)
    /\ store.warn = 0

\* ---- C11
\* the variable-to-exponent mapping of a term
PowersOf(tv) == [v \in Keys(tv) |-> Get(tv.var, v)]

\* the terms returned by the call, as values
ResultTermValues == TermValues(store, store.F[call.rf[1][1]].terms)

\* C11: the numerator returned by simplifyFraction never contains two terms
\* with the same variable-to-exponent mapping.
C11_LikeTermsCombined ==
    call.op = "simplifyFraction" =>
        \A i, j \in 1..Len(ResultTermValues) :
            i # j => PowersOf(ResultTermValues[i]) # PowersOf(ResultTermValues[j])

\* ---- C12
\* |q| <= 1e-10
Negligible(q) == ~QLess(Epsilon, QAbs(q))

\* a numerator as the list of its (key, coefficient) items, the key of a term
\* being its variable-to-exponent mapping
ByPowers(tvs) == [i \in 1..Len(tvs) |-> [key |-> PowersOf(tvs[i]), coeff |-> tvs[i].coeff]]

\* the groups of items with the same key, in the order of their first
\* appearance, each with the sum of the coefficients of its members
RECURSIVE GroupsOf(_, _)
GroupsOf(items, acc) ==
    IF items = <<>> THEN acc
    ELSE LET k == Head(items).key
             c == Head(items).coeff
         IN  IF \E i \in 1..Len(acc) : acc[i].key = k
             THEN GroupsOf(Tail(items),
                           [i \in 1..Len(acc) |->
                               IF acc[i].key = k
                               THEN [acc[i] EXCEPT !.coeff = QAdd(@, c)] ELSE acc[i]])
             ELSE GroupsOf(Tail(items), Append(acc, Head(items)))

Position(g, groups) == CHOOSE i \in 1..Len(groups) : groups[i] = g

\* r lists groups, each at most once and in their order; a group that is
\* not listed has a negligible sum
ListsGroups(r, groups) ==
    /\ \A i \in 1..Len(r) : \E k \in 1..Len(groups) : groups[k] = r[i]
    /\ \A i, j \in 1..Len(r) : i < j => Position(r[i], groups) < Position(r[j], groups)
    /\ \A k \in 1..Len(groups) :
          (\A i \in 1..Len(r) : r[i] # groups[k]) => Negligible(groups[k].coeff)

PairwiseDistinct(tvs) ==
    \A i, j \in 1..Len(tvs) : i # j => PowersOf(tvs[i]) # PowersOf(tvs[j])

\* C12: the numerator returned by simplifyFraction lists one term per group
\* of like terms, in the order of first appearance, with the sum of the
\* group's coefficients; the denominator is unchanged; a numerator of
\* pairwise distinct, non-negligible terms is returned as it is.
C12_OrderOfFirstAppearance ==
    [][call'.op = "simplifyFraction" =>
          LET f == FractionValue(store, TheFraction)
              r == FractionValue(store', call'.rf[1][1])
          IN  /\ r.deno = f.deno
              /\ ListsGroups(ByPowers(r.terms), GroupsOf(ByPowers(f.terms), <<>>))
              /\ (PairwiseDistinct(f.terms)
                  /\ \A i \in 1..Len(f.terms) : ~Negligible(f.terms[i].coeff))
                      => r.terms = f.terms]_vars

\* the same with like terms taken as the library takes them: terms whose
\* var objects list the same keys with the same exponents in the same order
SameKeyOrder(tvs) ==
    \A i, j \in 1..Len(tvs) :
        PowersOf(tvs[i]) = PowersOf(tvs[j]) => varKey(tvs[i]) = varKey(tvs[j])

C12_ForSameKeyOrder ==
    [][(call'.op = "simplifyFraction"
        /\ SameKeyOrder(TermValues(store, store.F[TheFraction].terms))) =>
          LET f == FractionValue(store, TheFraction)
              r == FractionValue(store', call'.rf[1][1])
          IN  /\ r.deno = f.deno
              /\ ListsGroups(ByPowers(r.terms), GroupsOf(ByPowers(f.terms), <<>>))
              /\ \A i \in 1..Len(r.terms) :
                    \E k \in 1..Len(f.terms) : r.terms[i].var = f.terms[k].var]_vars

\* ---- C13
\* |q| < 1e-10
BelowEpsilon(q) == QLess(QAbs(q), Epsilon)

\* the key of a term being the text of its var object
ByText(tvs) ==
    [i \in 1..Len(tvs) |->
        [key |-> [constant |-> ~tvs[i].hasVar, json |-> tvs[i].var], coeff |-> tvs[i].coeff]]

Listed(g, r) == \E i \in 1..Len(r) : r[i] = g

\* the documented example: 5x^2 - 5x^2 + 3 simplifies to the single term 3
SimplifyOf(fv) ==
    LET a == AllocFraction(EmptyStore, fv)
        r == simplifyFraction(a.S, a.r)
    IN  FractionValue(r.S, r.r)

C13_ExampleHolds ==
    SimplifyOf([terms |-> <<Lit(5, <<<<"x", 2>>>>), Lit(-5, <<<<"x", 2>>>>), Const(3)>>,
                deno |-> QInt(1)])
        = [terms |-> <<Const(3)>>, deno |-> QInt(1)]

C14_Idempotent ==
    call.then = "simplifyFraction" =>
        FractionValue(store, call.rf2) = FractionValue(store, call.rf[1][1])

\* the first call merged terms and kept two groups or more
C14_Witness ==
    /\ call.then = "simplifyFraction"
    /\ Len(store.F[call.rf[1][1]].terms) >= 2
    /\ Len(store.F[TheFraction].terms) > Len(store.F[call.rf[1][1]].terms)
    /\ call.rf2 # call.rf[1][1]

\* ---- C15
\* expandFractions(...expandFractions(f1, f2)..., fk)
RECURSIVE LeftFold(_, _, _)
LeftFold(S, fractions, k) ==
    IF k = 1 THEN [S |-> S, r |-> fractions[1], ok |-> TRUE]
    ELSE LET prev == LeftFold(S, fractions, k - 1)
         IN  IF prev.ok THEN expandFractions(prev.S, prev.r, fractions[k]) ELSE prev

\* C15: expandProduct([]) is the fraction of the single term 1 over 1;
\* expandProduct([f]) returns f with its terms, their order and its
\* denominator unchanged, whatever the denominator; for two fractions or
\* more the result is the left fold of expandFractions.
C15_ExpandProduct ==
    [][call'.op = "expandProduct" =>
          IF Len(TheProduct) = 0
          THEN /\ call'.ok
               /\ FractionValue(store', call'.rf[1][1])
                      = [terms |-> <<Const(1)>>, deno |-> QInt(1)]
          ELSE IF Len(TheProduct) = 1
          THEN /\ call'.ok
               /\ FractionValue(store', call'.rf[1][1])
                      = FractionValue(store, TheProduct[1])
          ELSE LET l == LeftFold(store, TheProduct, Len(TheProduct))
               IN  /\ call'.ok = l.ok
                   /\ l.ok => FractionValue(store', call'.rf[1][1])
                                  = FractionValue(l.S, l.r)]_vars

\* a single fraction with two like terms comes back with both of them
C15_Witness ==
    /\ call.op = "expandProduct"
    /\ call.ok
    /\ Len(TheProduct) = 1
    /\ Len(store.F[call.rf[1][1]].terms) = 2
    /\ store.T[store.F[call.rf[1][1]].terms[1]] = store.T[store.F[call.rf[1][1]].terms[2]]

\* ---- C16
\* every variable of the product is bound
AllBound == VarsOfTerms(TermsOfFractions(InputFractions)) \subseteq DOMAIN call.values

\* C16: for every product P of fractions with denominator 1 and every
\* binding of all its variables, evaluateFraction(expandProduct(P), b) equals
\* evaluateProduct(P, b).
C16_ExpansionPreservesValue ==
    (call.op = "expandProduct" /\ call.then = "evaluateFraction"
     /\ AllUnit(store, TheProduct) /\ AllBound) =>
        /\ call.ok2
        /\ call.num = evaluateProduct(store, TheProduct, call.values).val

\* the same for products whose coefficients are integers
IntegerCoefficients ==
    \A t \in TermsOfFractions(InputFractions) :
        Len(store.T[t].coeff) = 1 /\ store.T[t].coeff[1].d = 1

C16_ForIntegerCoefficients ==
    (call.op = "expandProduct" /\ call.then = "evaluateFraction"
     /\ AllUnit(store, TheProduct) /\ AllBound /\ IntegerCoefficients) =>
        /\ call.ok2
        /\ call.num = evaluateProduct(store, TheProduct, call.values).val

\* ---- C17
\* the term was integrated in x and the result differentiated in x
RoundTripDone ==
    call.op = "integrateTerm" /\ call.then = "differentiateTerm" /\ call.v = "x"

\* f of denominator 1 was integrated and the result given to verifyIntegration
VerificationDone ==
    /\ call.op = "integrateFraction"
    /\ call.then = "verifyIntegration"
    /\ store.F[TheFraction].deno = QInt(1)

SamePowers(t, r) == \A v \in Vars : Exponent(t, v) = Exponent(r, v)

\* the literal 1e-9: 0x1.12e0be826d695p-30
Tolerance ==
    Binary64(1, <<1,0,0,0,1,0,0,1,0,1,1,1,0,0,0,0,0,1,0,1,1,1,1,1,0,1,0,0,0,0,0,1,
                  0,0,1,1,0,1,1,0,1,0,1,1,0,1,0,0,1,0,1,0,1>>, -82)

\* Math.abs(a - b) < 1e-9
Within(a, b) == QLess(QAbs(QSub(a, b)), Tolerance)

\* C17: differentiating in x the integral in x of a monomial c*x^n (n >= 0,
\* with or without y) gives back the powers and the coefficient of the
\* monomial, and verifyIntegration(f, integrateFraction(f, v), v) is true for
\* every fraction f of denominator 1.
C17_RoundTrip ==
    /\ RoundTripDone =>
          /\ SamePowers(store.T[TheTerm], store.T[call.rt2])
          /\ store.T[call.rt2].coeff = store.T[TheTerm].coeff
    /\ VerificationDone => call.ok2 /\ call.bool

\* what does hold on binary64 numbers: the powers come back, the coefficient
\* comes back within 1e-9, and verifyIntegration never throws
C17_WithinTolerance ==
    /\ RoundTripDone =>
          /\ SamePowers(store.T[TheTerm], store.T[call.rt2])
          /\ Within(store.T[call.rt2].coeff, store.T[TheTerm].coeff)
    /\ VerificationDone => call.ok2

\* 15x^10: the coefficient comes back as 15.000000000000002
C17_CoefficientChanged ==
    /\ RoundTripDone
    /\ store.T[TheTerm] = FloatTerm(15, 10, 0)
    /\ store.T[call.rt2].coeff # store.T[TheTerm].coeff
    /\ Within(store.T[call.rt2].coeff, store.T[TheTerm].coeff)

\* x^2, the documented regression test: verifyIntegration returns true
C17_DocumentedTest ==
    /\ VerificationDone
    /\ call.v = "x"
    /\ JSONText(store, TheFraction).terms = <<FloatTerm(1, 2, 0)>>
    /\ call.bool

\* ---- C18
\* a fraction in x alone was integrated from call.lo to call.hi in x and the
\* result evaluated with empty bindings
IntegralEvaluated ==
    /\ call.op = "definiteIntegrateFraction"
    /\ call.then = "evaluateFraction"
    /\ call.v = "x"
    /\ DOMAIN call.values = {}
    /\ \A i \in DOMAIN store.F[TheFraction].terms :
          Keys(store.T[store.F[TheFraction].terms[i]]) \subseteq {"x"}

\* evaluateFraction(F, {x: b}) for the antiderivative F = integrateFraction(f, 'x')
ValueAt(F, b) == evaluateFraction(F.S, F.r, [w \in {"x"} |-> b]).val

\* F(b) - F(a)
FTCDifference(F) == QSub(ValueAt(F, call.hi), ValueAt(F, call.lo))

ZeroWidthEvaluated ==
    /\ call.op = "definiteIntegrateFraction"
    /\ call.then = "evaluateFraction"
    /\ call.v = "x"
    /\ call.lo = call.hi

\* the variables of f other than x
OtherVariables ==
    UNION {Keys(store.T[store.F[TheFraction].terms[i]]) :
              i \in DOMAIN store.F[TheFraction].terms} \ {"x"}

RegionStep(p, b) == SimplifyLiteral(definiteIntegrateFraction(p.S, p.r, b[2], b[3], b[1]))

\* the running result after the first k entries of bounds, from the copy on
RECURSIVE RegionFold(_, _, _)
RegionFold(copy, bounds, k) ==
    IF k = 0 THEN copy ELSE RegionStep(RegionFold(copy, bounds, k - 1), bounds[k])

\* the store S with the fraction r in it is what the steps e leave
IsRegionFold(e, S, r) == S = e.S /\ FractionValue(S, r) = FractionValue(e.S, e.r)

\* the variables named by bounds
BoundVariables(bounds) == {bounds[i][1] : i \in DOMAIN bounds}

\* C20: integralOverRegion(f, bounds) starts from a copy of f and takes the
\* entries of bounds in the order given, step i replacing the running result
\* r by simplifyFraction(definiteIntegrateFraction(r, lower_i, upper_i,
\* var_i)); the returned fraction is a new object and has none of the
\* variables of bounds.
C20_IntegralOverRegion ==
    [][call'.op = "integralOverRegion" =>
          /\ call'.ok
          /\ call'.rf[1][1] \notin DOMAIN store.F
          /\ IsRegionFold(RegionFold(deepCloneFraction(store, TheFraction),
                                     call'.bounds, Len(call'.bounds)),
                          store', call'.rf[1][1])
          /\ \A i \in DOMAIN store'.F[call'.rf[1][1]].terms :
                Keys(store'.T[store'.F[call'.rf[1][1]].terms[i]])
                    \cap BoundVariables(call'.bounds) = {}]_vars

\* (1e-10/2)x over y in [-1, 2], then x in [0, 2]: the term 3e-10 is returned;
\* with x first the first step would leave exactly 1e-10, which is dropped
C20_Witness ==
    /\ call.op = "integralOverRegion"
    /\ call.bounds = <<<<"y", QInt(-1), QInt(2)>>, <<"x", QInt(0), QInt(2)>>>>
    /\ FractionValue(store, TheFraction).terms
          = <<LitQ(QDiv(Epsilon, QInt(2)), <<<<"x", 1>>>>)>>
    /\ Len(store.F[call.rf[1][1]].terms) = 1
    /\ store.T[store.F[call.rf[1][1]].terms[1]].coeff = QMul(QInt(3), Epsilon)

\* ---------------------------------------------------------------- C21
\* the entries of a two-entry bounds object in the other order
Swapped(bounds) == <<bounds[2], bounds[1]>>

\* the number the same call returns for the other order of integration
OtherOrder(op, bounds) ==
    IF op = "doubleIntegral" THEN doubleIntegral(store, TheFraction, Swapped(bounds)).val
    ELSE integralValue(store, TheFraction, Swapped(bounds)).val

RectangleCall == Idle /\ call'.op \in {"doubleIntegral", "integralValue"}

Builders == {"polynomial", "sum", "monomial", "product"}

\* the fractions of the returned equation that the builder made itself
CreatedFractions == FractionsOf(call.rf) \ InputFractions

\* every exponent of the term is a positive integer
PositivePowers(tv) == \A i \in 1..Len(tv.var) : tv.var[i][2] \in Nat \ {0}

\* C22, as stated: every tree returned by polynomial, sum, monomial and
\* product is well-formed: exponents are non-negative integers, no term has
\* a variable with exponent 0, and every fraction they create has
\* denominator 1.  Violated: monomial(7, {x: 0}) returns the term
\* {coeff: 7, var: {x: 0}}.
C22_WellFormed ==
    call.op \in Builders =>
        \A f \in CreatedFractions :
            /\ store.F[f].deno = QInt(1)
            /\ \A i \in 1..Len(store.F[f].terms) :
                    PositivePowers(store.T[store.F[f].terms[i]])

\* what the builders do keep: polynomial returns a well-formed tree for every
\* coefficient list, and every created fraction has denominator 1
C22_Polynomial ==
    /\ call.op = "polynomial" =>
            \A f \in CreatedFractions : \A i \in 1..Len(store.F[f].terms) :
                LET tv == store.T[store.F[f].terms[i]]
                IN  /\ PositivePowers(tv)
                    /\ tv.hasVar = (tv.var # <<>>)
                    /\ tv.coeff # QInt(0)
    /\ call.op \in Builders =>
            /\ Len(call.rf) = 1
            /\ \A f \in CreatedFractions : store.F[f].deno = QInt(1)

\* ---------------------------------------------------------------- C23
CurrentTerms == TermValues(store, store.F[TheFraction].terms)

\* C23: starting from fractions over 1 whose terms carry only positive
\* exponents, every fraction reached by a sequence of integrateFraction,
\* definiteIntegrateFraction, differentiateFraction, simplifyFraction,
\* expandFractions and expandProduct has only positive integer exponents: no
\* variable with exponent 0 or a negative exponent, and a term without
\* variables has no powers object at all.
C23_WellFormed ==
    input.kind = "frac" =>
        \A i \in 1..Len(CurrentTerms) :
            /\ PositivePowers(CurrentTerms[i])
            /\ CurrentTerms[i].hasVar = (CurrentTerms[i].var # <<>>)

\* a derivative that removed the last variable of a term, at the end of a
\* sequence that also integrated and multiplied
C23_Witness ==
    /\ call.order = MaxSteps
    /\ call.op = "differentiateFraction"
    /\ \E i \in 1..Len(CurrentTerms) : ~CurrentTerms[i].hasVar
    /\ \E i \in 1..Len(CurrentTerms) : CurrentTerms[i].hasVar

\* ---------------------------------------------------------------- C24
Expanded ==
    /\ call.op \in {"expandFractions", "expandProduct"}
    /\ call.ok
    /\ Len(TheProduct) >= 2

\* C24, as stated: the numerator returned by expandFractions, and by
\* expandProduct on two fractions or more, has at most one term per monomial:
\* no two of its terms have the same variable-to-exponent mapping.  Violated:
\* (3x + 3y)(3x + 3y) returns 9x^2 + 9xy + 9yx + 9y^2, the cross terms
\* {x: 1, y: 1} and {y: 1, x: 1} are not combined.
C24_OneTermPerMonomial == Expanded => PairwiseDistinct(ResultTermValues)

\* what holds: no two terms of the result have the same keys with the same
\* exponents in the same order
C24_OneTermPerKey ==
    Expanded =>
        \A i, j \in 1..Len(ResultTermValues) :
            i # j => varKey(ResultTermValues[i]) # varKey(ResultTermValues[j])

\* the square of 3x + 3y with its four terms
C24_CrossTermsApart ==
    /\ Expanded
    /\ Len(TheProduct) = 2
    /\ \A k \in 1..2 : FractionValue(store, TheProduct[k]).terms
                            = <<Lit(3, <<<<"x", 1>>>>), Lit(3, <<<<"y", 1>>>>)>>
    /\ Len(ResultTermValues) = 4

\* ---------------------------------------------------------------- C25
DerivativeTerm == store.T[call.rt]

NaturalPowers(tv) == \A i \in 1..Len(tv.var) : tv.var[i][2] \in Nat

\* C25, as stated: for every term with non-negative exponents, a term with
\* the variable at exponent 0 included, differentiateTerm returns a term
\* whose exponents are non-negative; when the power of the variable is 0 the
\* result is the zero term without the variable.  Violated:
\* differentiateTerm({coeff: 3, var: {x: 0}}, 'x') returns
\* {coeff: 0, var: {x: -1}}.
C25_NonNegativeExponents ==
    call.op = "differentiateTerm" =>
        /\ NaturalPowers(DerivativeTerm)
        /\ Exponent(store.T[TheTerm], call.v) = 0 =>
                /\ DerivativeTerm.coeff = QInt(0)
                /\ call.v \notin Keys(DerivativeTerm)

\* what holds: the exponents of the result are non-negative unless the term
\* has the key of the variable with exponent 0, and then the variable comes
\* back with exponent -1 under a zero coefficient
C25_UnlessExplicitZero ==
    call.op = "differentiateTerm" =>
        IF HasKey(store.T[TheTerm].var, call.v) /\ Get(store.T[TheTerm].var, call.v) = 0
        THEN /\ DerivativeTerm.coeff = QInt(0)
             /\ Get(DerivativeTerm.var, call.v) = -1
        ELSE NaturalPowers(DerivativeTerm)

\* ---------------------------------------------------------------- C26
\* the monomial of a term: its variables with a non-zero exponent
MonomialOf(tv) ==
    [v \in {k \in Keys(tv) : Get(tv.var, k) # 0} |-> Get(tv.var, v)]

\* the monomial divided by v
Lowered(m, v) ==
    IF v \notin DOMAIN m THEN m
    ELSE [w \in (IF m[v] = 1 THEN DOMAIN m \ {v} ELSE DOMAIN m) |->
             IF w = v THEN m[v] - 1 ELSE m[w]]

\* a polynomial: its monomials with the non-zero sums of their coefficients
NonZeroGroups(items) ==
    {g \in {GroupsOf(items, <<>>)[i] : i \in 1..Len(GroupsOf(items, <<>>))} :
        g.coeff # QInt(0)}

PolynomialOf(tvs) ==
    NonZeroGroups([i \in 1..Len(tvs) |-> [key |-> MonomialOf(tvs[i]), coeff |-> tvs[i].coeff]])

\* the derivative in v, term by term: c * n * (monomial / v)
DerivativePolynomial(tvs, v) ==
    NonZeroGroups([i \in 1..Len(tvs) |->
                   [key |-> Lowered(MonomialOf(tvs[i]), v),
                    coeff |-> QMul(tvs[i].coeff, QInt(Exponent(tvs[i], v)))]])

Verified ==
    /\ call.op = "verifyIntegration"
    /\ store.F[TheFraction].deno = QInt(1)

\* C26, as stated: for fractions over 1, verifyIntegration(original,
\* integrated, v) returns true exactly when the derivative of integrated in v
\* is the same polynomial as original, whatever the order of the terms in
\* either argument and whatever constant is added to integrated.  Violated:
\* for original 3 + 3x and integrated (3/2)x^2 + 3x it returns false.
C26_TrueIffSamePolynomial ==
    Verified =>
        /\ call.ok
        /\ call.bool <=>
              DerivativePolynomial(TermValues(store, store.F[call.rf2].terms), call.v)
                  = PolynomialOf(TermValues(store, store.F[TheFraction].terms))

\* what holds: verifyIntegration does not throw, and when it returns true the
\* derivative of integrated is the polynomial original, up to coefficients
\* of at most 1e-10
C26_TrueOnlyIfSame ==
    (Verified /\ IntegerCoefficients) =>
        /\ call.ok
        /\ call.bool =>
              DerivativePolynomial(TermValues(store, store.F[call.rf2].terms), call.v)
                  = PolynomialOf(TermValues(store, store.F[TheFraction].terms))

\* 3 + 3x and its antiderivative written as (3/2)x^2 + 3x: false
C26_OrderMatters ==
    /\ Verified
    /\ call.v = "x"
    /\ TermValues(store, store.F[TheFraction].terms) = <<Const(3), Lit(3, <<<<"x", 1>>>>)>>
    /\ TermValues(store, store.F[call.rf2].terms)
          = <<LitQ(QDiv(QInt(3), QInt(2)), <<<<"x", 2>>>>), Lit(3, <<<<"x", 1>>>>)>>
    /\ ~call.bool

\* the same antiderivative in the order of original, with a constant: true
C26_ConstantIgnored ==
    /\ Verified
    /\ call.v = "x"
    /\ TermValues(store, store.F[TheFraction].terms) = <<Const(3), Lit(3, <<<<"x", 1>>>>)>>
    /\ TermValues(store, store.F[call.rf2].terms)
          = <<Const(3), Lit(3, <<<<"x", 1>>>>), LitQ(QDiv(QInt(3), QInt(2)), <<<<"x", 2>>>>)>>
    /\ call.bool

\* ---- C27
\* f was simplified and the result evaluated at a binding of all variables of f
SimplifiedEvaluated ==
    call.op = "simplifyFraction" /\ call.then = "evaluateFraction" /\ AllBound

\* no group of like terms of f sums to a non-zero coefficient of absolute
\* value at most 1e-10
NoTinyGroup ==
    LET groups == GroupsOf(ByText(TermValues(store, store.F[TheFraction].terms)), <<>>)
    IN  \A k \in 1..Len(groups) :
            QSign(groups[k].coeff) = 0 \/ ~Negligible(groups[k].coeff)

\* the fractions of r are the simplified fractions of p, in the order of p
SimplifiedInOrder(p, r) ==
    /\ Len(r) = Len(p)
    /\ \A i \in 1..Len(p) :
          /\ store.F[r[i]].deno = store.F[p[i]].deno
          /\ FractionValue(store, r[i]) = SimplifyOf(FractionValue(store, p[i]))

\* the denominators, and the number and order of fractions and products
StructureKept ==
    /\ call.op = "simplifyFraction" =>
          store.F[call.rf[1][1]].deno = store.F[TheFraction].deno
    /\ call.op = "simplifyProduct" => SimplifiedInOrder(TheProduct, call.rf[1])
    /\ call.op = "simplifyEquation" =>
          /\ Len(call.rf) = Len(input.eqn)
          /\ \A k \in 1..Len(input.eqn) : SimplifiedInOrder(input.eqn[k], call.rf[k])

C27_TinyGroupDropped ==
    /\ SimplifiedEvaluated
    /\ ~NoTinyGroup
    /\ ~Within(call.num, evaluateFraction(store, TheFraction, call.values).val)

\* a product of two fractions with different denominators was simplified
C27_ProductSimplified ==
    /\ call.op = "simplifyProduct"
    /\ Len(TheProduct) = 2
    /\ store.F[TheProduct[1]].deno # store.F[TheProduct[2]].deno
    /\ Len(store.F[call.rf[1][1]].terms) < Len(store.F[TheProduct[1]].terms)

\* ---- C28
\* P of fractions with denominator 1 was differentiated by the product rule
\* and the result evaluated at a binding of all variables of P
ProductRuleEvaluated ==
    /\ call.op = "productRuleDifferentiate"
    /\ call.then = "evaluateFraction"
    /\ AllUnit(store, TheProduct)
    /\ AllBound

\* evaluateFraction(differentiateFraction(e, v), values) for e = expandProduct(P)
DerivativeValue(e, v, values) ==
    evaluateFraction(differentiateFraction(e.S, e.r, v).S,
                     differentiateFraction(e.S, e.r, v).r, values)

ExpandThenDifferentiate == DerivativeValue(expandProduct(store, TheProduct), call.v, call.values)

\* the documented example: productRuleDifferentiate([x, x^2], 'x') is 3x^2
C28_Example ==
    LET a == AllocProduct(EmptyStore,
                 <<[terms |-> <<Lit(1, <<<<"x", 1>>>>)>>, deno |-> QInt(1)],
                   [terms |-> <<Lit(1, <<<<"x", 2>>>>)>>, deno |-> QInt(1)]>>)
        r == productRuleDifferentiate(a.S, a.r, "x")
    IN  r.ok /\ FractionValue(r.S, r.r) = [terms |-> <<Lit(3, <<<<"x", 2>>>>)>>, deno |-> QInt(1)]

\* C28 as stated: for every product P of fractions with denominator 1 and
\* every variable v, productRuleDifferentiate(P, v) evaluates, at every
\* binding of the variables, to the same value as
\* differentiateFraction(expandProduct(P), v); d/dx[x * x^2] = 3x^2.
C28_ProductRule ==
    /\ ProductRuleEvaluated =>
          /\ call.ok2
          /\ ExpandThenDifferentiate.ok
          /\ call.num = ExpandThenDifferentiate.val
    /\ C28_Example

\* what does hold: the same for products whose coefficients are integers
C28_ForIntegerCoefficients ==
    /\ (ProductRuleEvaluated /\ IntegerCoefficients) =>
          /\ call.ok2
          /\ ExpandThenDifferentiate.ok
          /\ call.num = ExpandThenDifferentiate.val
    /\ C28_Example

\* two factors with two terms each, differentiated in x at x = 2
C28_TwoFactors ==
    /\ ProductRuleEvaluated
    /\ IntegerCoefficients
    /\ Len(TheProduct) = 2
    /\ call.v = "x"
    /\ "x" \in DOMAIN call.values
    /\ call.values["x"] = QInt(2)
    /\ call.num # QInt(0)

\* ---- C29
\* f is a polynomial in v alone, of denominator 1 and of degree below order
PolynomialBelowOrder ==
    /\ call.op = "taylorSeries"
    /\ store.F[TheFraction].deno = QInt(1)
    /\ \A i \in 1..Len(store.F[TheFraction].terms) :
          Keys(store.T[store.F[TheFraction].terms[i]]) \subseteq {call.v}
    /\ MaxExponent(store, TheFraction) < call.order

\* the returned series and f have the same value at v = p
SameValueAt(p) ==
    evaluateFraction(store, call.rf[1][1], [w \in {call.v} |-> p])
        = evaluateFraction(store, TheFraction, [w \in {call.v} |-> p])

\* the documented example: x^2 around 1 with 4 terms
TaylorExample ==
    LET a == AllocFraction(EmptyStore, [terms |-> <<Lit(1, <<<<"x", 2>>>>)>>, deno |-> QInt(1)])
        r == taylorSeries(a.S, a.r, "x", QInt(1), 4)
    IN  [f |-> a.r, S |-> r.S, series |-> r.r]

C29_ExampleReconstructs ==
    \A p \in BindVals :
        evaluateFraction(TaylorExample.S, TaylorExample.series, [w \in {"x"} |-> p])
            = evaluateFraction(TaylorExample.S, TaylorExample.f, [w \in {"x"} |-> p])

\* C29 as stated: for every single-variable polynomial f with denominator 1
\* and degree below order, and every center a, the series returned by
\* taylorSeries(f, v, a, order) evaluates at every point to the same value as
\* f; x^2 around 1 is reconstructed exactly.
C29_ExactReconstruction ==
    /\ PolynomialBelowOrder => (call.ok /\ \A p \in BindVals : SameValueAt(p))
    /\ C29_ExampleReconstructs

\* what does hold: the same around the center 0 for integer coefficients
C29_AroundZero ==
    (PolynomialBelowOrder /\ call.values[call.v] = QInt(0) /\ IntegerCoefficients)
        => (call.ok /\ \A p \in BindVals : SameValueAt(p))

\* the series of the documented example is 1 + 2x + x^2: its terms are
\* powers of x, not of x - 1
C29_SeriesInPowersOfX ==
    FractionValue(TaylorExample.S, TaylorExample.series)
        = [terms |-> <<Const(1), Lit(2, <<<<"x", 1>>>>), Lit(1, <<<<"x", 2>>>>)>>,
           deno |-> QInt(1)]

\* a series with three terms around a center other than 0
C29_OffCenter ==
    /\ PolynomialBelowOrder
    /\ call.ok
    /\ call.values[call.v] # QInt(0)
    /\ Len(store.F[call.rf[1][1]].terms) = 3
    /\ ~SameValueAt(QInt(0))

\* ---- C30
\* the highest exponent of v in the numerator of f (0 when no term has v)
HighestExponent(S, f, v) ==
    LET ps == {0} \cup {Exponent(S.T[S.F[f].terms[i]], v) : i \in 1..Len(S.F[f].terms)}
    IN  CHOOSE p \in ps : \A q \in ps : q <= p

\* differentiateFraction was applied call.order + 1 times to f of denominator 1
DifferentiatedRepeatedly ==
    call.op = "differentiateFraction" /\ store.F[TheFraction].deno = QInt(1)

\* partialDerivative(f, v, k) was called with k above the highest exponent
HigherThanDegree ==
    /\ call.op = "partialDerivative"
    /\ store.F[TheFraction].deno = QInt(1)
    /\ call.order > HighestExponent(store, TheFraction, call.v)

\* C30: for a fraction of denominator 1 whose highest exponent of v is d,
\* applying differentiateFraction with respect to v repeatedly never fails and
\* gives an empty numerator from the (d+1)-th application on; and
\* partialDerivative(f, v, k) with k > d evaluates to 0 at every binding.
C30_TerminatesInZero ==
    /\ DifferentiatedRepeatedly =>
          /\ call.ok /\ call.ok2
          /\ call.order + 1 > HighestExponent(store, TheFraction, call.v)
                => store.F[LastDerivative].terms = <<>>
    /\ HigherThanDegree =>
          /\ call.ok
          /\ \A values \in Bindings :
                evaluateFraction(store, call.rf[1][1], values) = [ok |-> TRUE, val |-> QInt(0)]

\* a numerator of degree MaxPow in v with two terms or more has been
\* differentiated MaxPow + 2 times: the last two results are empty
C30_Witness ==
    /\ DifferentiatedRepeatedly
    /\ HighestExponent(store, TheFraction, call.v) = MaxPow
    /\ Len(store.F[TheFraction].terms) >= 2
    /\ call.order = MaxPow + 1
    /\ call.ok2
    /\ store.F[call.rf2].terms = <<>>
    /\ store.F[call.rf[1][1]].terms # <<>>

\* the d-th derivative of a numerator of degree d > 0 is not empty
C30_NotEarlier ==
    /\ DifferentiatedRepeatedly
    /\ HighestExponent(store, TheFraction, call.v) = MaxPow
    /\ call.order + 1 = MaxPow
    /\ store.F[LastDerivative].terms # <<>>
====
